---- MODULE Spec2Model ----
(***************************************************************************)
(* Model of the three reconciliation loops of carina's controllers:        *)
(*   - NodeReconciler (controllers/node_controller.go): volume rebuild     *)
(*   - PodReconciler (controllers/pod_controller.go): blkio throttle       *)
(*   - PersistentVolumeReconciler (controllers/persistentvolume_           *)
(*     controller.go): node capacity config map                            *)
(* Each controller has its own specification over its own variables; the   *)
(* variables of the other two controllers stay at their initial values.    *)
(***************************************************************************)
EXTENDS Integers, Sequences, FiniteSets, TLC

VARIABLES
    \* ---- cluster objects read and written by NodeReconciler
    lvs,              \* LogicVolume objects by name
    nodes,            \* Node objects by name
    pvs,              \* names of the PersistentVolumes that exist
    claims,           \* PersistentVolumeClaim objects by namespace/name
    \* ---- NodeReconciler
    cacheNoDeleteLv,  \* r.cacheNoDeleteLv (keys only)
    wk,               \* per goroutine: position and locals of resourceReconcile
    lastCall,         \* the cluster call of the latest step, if it made one
    events,           \* node delete events delivered and not yet reconciled
    exhaustedBefore,  \* LogicVolumes whose claim creation ran out of retries
                      \* in an earlier pass, the cluster unchanged since
    stopChan,         \* r.StopChan has been closed
    ticker,           \* the ticker goroutine: "running" or "stopped"
    crashed,          \* the process died of a panic
    \* ---- PodReconciler and the host it throttles
    pods,             \* the pods of this node scheduled by carina, by name
    hostFile,         \* per limit kind: the throttle pseudo-file of the host
    tpass,            \* per goroutine: position and locals of its throttle pass
    zeroedBefore,     \* <<kind, device>> cleared by the latest full pass that
                      \* returned, pods and host otherwise unchanged since
    cleanBefore,      \* the latest full pass that returned was without
                      \* failure, pods and host otherwise unchanged since
    dirty,            \* the pods or the host changed under the full pass in
                      \* progress
    podStatus,        \* per pod: phase and deletion marker
    rec,              \* the invocation of PodReconciler.Reconcile in progress
    \* ---- PersistentVolumeReconciler and the artifact it publishes
    capNodes,         \* the capacity and allocatable quantities of the nodes
    cacheConfigMap,   \* r.cacheConfigMap: node name -> record last cached
    configMap,        \* the object carina-node-storage of the cluster
    cprev,            \* the aggregation pass that returned before the latest
    clast,            \* the aggregation pass that returned last
    \* ---- PersistentVolumeReconciler.Reconcile and its clock
    now,              \* time.Now(), in seconds since SetupWithManager
    lastEventTime,    \* r.lastEventTime
    lastRun,          \* when the latest event reconciliation ran (history)
    queue,            \* requests waiting in the controller's work queue
    deb,              \* the one Reconcile worker: position and locals
    ticks,            \* ticks of the 60 s ticker already served
    \* ---- updateNodeConfigMap call by call, in two goroutines
    cw,               \* per goroutine: position and locals of its pass
    cart              \* the passes begun and the writes of the artifact since
                      \* the cluster changed last (history)

shutdownVars == <<stopChan, ticker>>

rebuildVars == <<lvs, nodes, pvs, claims, cacheNoDeleteLv, wk, lastCall, events,
                 exhaustedBefore, shutdownVars>>

reconcileVars == <<podStatus, rec>>

throttleVars == <<pods, hostFile, tpass, zeroedBefore, cleanBefore, dirty,
                  reconcileVars>>

debounceVars == <<now, lastEventTime, lastRun, queue, deb, ticks>>

reentrantVars == <<cw, cart>>

capVars == <<capNodes, cacheConfigMap, configMap, cprev, clast, debounceVars,
             reentrantVars>>

vars == <<rebuildVars, throttleVars, capVars, crashed>>

(***************************************************************************)
(* Program constants.                                                      *)
(***************************************************************************)
CreateRetries == 12

LogicVolumeFinalizer == "carina.storage.io/logicvolume"

(***************************************************************************)
(* The cluster fixture: the names the objects are drawn from.              *)
(***************************************************************************)
LVNames == {"lv1", "lv2"}
NodeNames == {"n1", "n2"}
ClaimKeys == {"ns/pvc1", "ns/pvc2"}
Workers == {"timer", "event", "event2"}

\* lv.Spec.NodeName and lv.Spec.NameSpace/lv.Spec.Pvc of each LogicVolume
LVNode(name) == IF name = "lv1" THEN "n1" ELSE "n2"
LVClaim(name) == IF name = "lv1" THEN "ns/pvc1" ELSE "ns/pvc2"

\* the claim spec fields that rebuildVolume copies; "nil-sc" is a spec whose
\* StorageClassName (or VolumeMode) pointer is nil
ClaimSpecs == {"sc", "nil-sc"}

AbsentLV ==
    [exists |-> FALSE, owners |-> {}, status |-> "", finalizers |-> {},
     deleting |-> FALSE, nodeName |-> "", pvc |-> ""]

AbsentNode == [exists |-> FALSE, deleting |-> FALSE, phase |-> ""]

AbsentClaim == [exists |-> FALSE, spec |-> "", volumeName |-> "", status |-> ""]

(***************************************************************************)
(* Helpers of package utils and of the cluster client.                     *)
(***************************************************************************)
\* utils.ContainsString
ContainsString(slice, s) == s \in slice

\* utils.SliceRemoveString
SliceRemoveString(slice, s) == slice \ {s}

\* client.Delete of a LogicVolume: an object that carries finalizers is only
\* marked for deletion, one without is removed
ApiDeleteLV(obj) ==
    IF obj.finalizers # {} THEN [obj EXCEPT !.deleting = TRUE] ELSE AbsentLV

\* mutant: the patch sends the finalizer list as it was
ApiPatchKeepsFinalizers(obj, fins) == obj

\* client.Patch(lv2, client.MergeFrom(&lv)): the finalizer list is replaced;
\* an object marked for deletion goes away with its last finalizer
ApiPatchFinalizers(obj, fins) ==
    IF obj.deleting /\ fins = {} THEN AbsentLV
    ELSE [obj EXCEPT !.finalizers = fins]

\* the goroutines that run resourceReconcile: the ticker goroutine (line 63)
\* and those that Reconcile starts for delete events (line 54)
EventWorkers == Workers \ {"timer"}

\* a cluster call of goroutine `by`; spec is the claim spec fetched or sent
Op(by, op, kind, name, ok) ==
    [by |-> by, op |-> op, kind |-> kind, name |-> name, ok |-> ok, spec |-> ""]

PvcOp(by, op, name, ok, spec) ==
    [by |-> by, op |-> op, kind |-> "pvc", name |-> name, ok |-> ok, spec |-> spec]

\* the latest step made no cluster call
NoCall == Op("", "", "", "", TRUE)

\* a goroutine that is not in resourceReconcile. patched: the LogicVolumes
\* whose finalizer the pass has patched away; created: the claims the pass
\* has created; known: the LogicVolumes that had run out of create attempts
\* when the pass began
IdleWk(ret) ==
    [pc |-> "idle", lvList |-> <<>>, nodeStatus |-> [n \in {} |-> ""], pvMap |-> {},
     volumeObjectMap |-> {}, pending |-> {}, key |-> <<>>, newPvc |-> AbsentClaim,
     attempts |-> 0, listErr |-> "none", patched |-> {}, created |-> {},
     known |-> {},
     ret |-> ret]

\* lines 96-107: resourceReconcile returns; what the pass listed, selected
\* and created stays on record until the next step of any goroutine
Return(l, ret) ==
    [IdleWk(ret) EXCEPT !.nodeStatus = l.nodeStatus, !.pvMap = l.pvMap,
                        !.volumeObjectMap = l.volumeObjectMap,
                        !.patched = l.patched, !.created = l.created,
                        !.known = l.known]

(***************************************************************************)
(* NodeReconciler.getNeedRebuildVolume                                     *)
(***************************************************************************)
\* lines 130-137: a node with a deletion marker or in phase Terminated is
\* "abnormal", every other listed node "normal"
NodeStatusOf(n) ==
    IF n.deleting \/ n.phase = "Terminated" THEN "abnormal" ELSE "normal"

NodeStatusMap(nl) ==
    [n \in {m \in NodeNames : nl[m].exists} |-> NodeStatusOf(nl[n])]

\* NodeReconciler.pvMap
PvMap(pvList) == pvList

\* mutant: the owner-reference check is missing
IsOwnedNever(lv) == FALSE

\* line 147: a LogicVolume with owner references is left alone
IsOwned(lv) == Cardinality(lv.owners) > 0

\* lines 151-152: a LogicVolume with a status and no PersistentVolume
IsOrphan(lv, name, pvMap) == lv.status # "" /\ name \notin pvMap

\* lines 171-174: a Success volume is skipped when it is negatively cached
SkipCached(lv, name, cache) == lv.status = "Success" /\ name \in cache

\* mutant: the node of a Success volume is not consulted
SkipNormalNever(lv, nodeStatus) == FALSE

\* lines 171, 175-177: a Success volume is skipped when its node is listed
\* and normal
SkipNormal(lv, nodeStatus) ==
    /\ lv.status = "Success"
    /\ lv.nodeName \in DOMAIN nodeStatus
    /\ nodeStatus[lv.nodeName] = "normal"

\* what a part of an iteration did: lv is the object the cluster holds after
\* it, call the cluster call it made, cand whether the volume is a candidate
\* now, err whether the call failed, patch whether the orphan's finalizer
\* patch is still to be made, select whether lines 175-189 are still to run
ScanResult(lv, call, cand, err, patch, select) ==
    [lv |-> lv, call |-> call, cand |-> cand, err |-> err, patch |-> patch,
     select |-> select]

\* lines 175-189, the rest of an iteration after the negative cache has
\* been read (or for a volume whose status is not Success): the node check,
\* the entry in volumeObjectMap and the finalizer patch
SelectLV(w, name, lv, cur, nodeStatus, fault) ==
    LET hasFin == ContainsString(lv.finalizers, LogicVolumeFinalizer)
        fins2 == SliceRemoveString(lv.finalizers, LogicVolumeFinalizer)
        callOk == cur.exists /\ fault = "none"
    IN  IF SkipNormal(lv, nodeStatus)
        THEN ScanResult(cur, NoCall, FALSE, FALSE, FALSE, FALSE)
        ELSE IF ~hasFin
        THEN ScanResult(cur, NoCall, TRUE, FALSE, FALSE, FALSE)
        ELSE IF ~callOk
        THEN ScanResult(cur, Op(w, "patch", "lv", name, FALSE),
                        TRUE, TRUE, FALSE, FALSE)
        ELSE ScanResult(ApiPatchFinalizers(cur, fins2),
                        Op(w, "patch", "lv", name, TRUE),
                        TRUE, FALSE, FALSE, FALSE)

\* lines 145-174, one iteration of the loop over lvList.Items up to and
\* with its first access to what the goroutines share, a cluster call or
\* the read of the negative cache (line 172): lv is the listed object, cur
\* the object the cluster holds now, fault tells whether the call fails for
\* reasons of the cluster's own
ScanLV(w, name, lv, cur, pvMap, nodeStatus, cache, fault) ==
    LET hasFin == ContainsString(lv.finalizers, LogicVolumeFinalizer)
        callOk == cur.exists /\ fault = "none"
        nothing == ScanResult(cur, NoCall, FALSE, FALSE, FALSE, FALSE)
    IN  IF IsOwned(lv) THEN nothing
        ELSE IF IsOrphan(lv, name, pvMap) THEN
            IF ~hasFin THEN nothing
            ELSE IF ~callOk
            THEN ScanResult(cur, Op(w, "delete", "lv", name, FALSE),
                            FALSE, TRUE, FALSE, FALSE)
            ELSE ScanResult(ApiDeleteLV(cur), Op(w, "delete", "lv", name, TRUE),
                            FALSE, FALSE, TRUE, FALSE)
        ELSE IF lv.status = "Success" THEN
            IF SkipCached(lv, name, cache) THEN nothing
            ELSE ScanResult(cur, NoCall, FALSE, FALSE, FALSE, TRUE)
        ELSE SelectLV(w, name, lv, cur, nodeStatus, fault)

\* lines 159-165: the finalizer patch of an orphan, computed from the listed
\* object lv and sent for the object cur the cluster holds after the delete
PatchOrphan(w, name, lv, cur, fault) ==
    LET fins2 == SliceRemoveString(lv.finalizers, LogicVolumeFinalizer) IN
    IF cur.exists /\ fault = "none"
    THEN [lv |-> ApiPatchFinalizers(cur, fins2),
          call |-> Op(w, "patch", "lv", name, TRUE), err |-> FALSE]
    ELSE [lv |-> cur, call |-> Op(w, "patch", "lv", name, FALSE), err |-> TRUE]

\* the orders in which the listed LogicVolumes may come
LVOrders(names) ==
    {s \in [1..Cardinality(names) -> names] :
        \A i, j \in 1..Cardinality(names) : i # j => s[i] # s[j]}

\* lines 115, 125, 139: the list call that fails, if the cluster makes the
\* call `list` fail
FailedList(list, fault) == IF fault = list THEN list ELSE "none"

\* mutant: the error of the PersistentVolume list is dropped
ListsRetIgnorePv(failed, present) ==
    IF failed \in {"lvs", "nodes"} THEN "err"
    ELSE IF present = {} THEN "nil"
    ELSE "none"

\* lines 116-121, 126-129, 140-143: what a list makes the pass return:
\* "err", "nil" when no LogicVolume is listed, or "none" when it goes on
ListsRet(failed, present) ==
    IF failed # "none" THEN "err"
    ELSE IF present = {} THEN "nil"
    ELSE "none"

\* the LogicVolume whose claim creation ran out of retries in the pass that
\* goroutine w has just returned from
Exhausted(w) ==
    IF wk[w].pc = "idle" /\ wk[w].ret = "err" /\ wk[w].attempts = CreateRetries
    THEN {wk[w].key[1]} ELSE {}

\* line 172: the iteration that goroutine v is about to run reads
\* r.cacheNoDeleteLv
ReadsCache(v) ==
    /\ wk[v].pc = "scan"
    /\ LET item == Head(wk[v].lvList) IN
       /\ ~IsOwned(item.obj)
       /\ ~IsOrphan(item.obj, item.name, wk[v].pvMap)
       /\ item.obj.status = "Success"

\* line 200: goroutine v is about to write r.cacheNoDeleteLv
WritesCache(v) == wk[v].pc = "cache"

\* the records after a step of goroutine w that leaves it as l after the
\* call c: the record of a pass that has returned stays until the next
\* step, which clears it and notes a creation that ran out of retries
Step(w, l, c) ==
    /\ wk' = [v \in Workers |->
                IF v = w THEN l
                ELSE IF wk[v].pc = "idle" THEN IdleWk("none")
                ELSE wk[v]]
    /\ lastCall' = c
    /\ exhaustedBefore' = exhaustedBefore \cup UNION {Exhausted(v) : v \in Workers}

\* what a step of a pass leaves alone
RebuildFrame ==
    /\ UNCHANGED <<nodes, pvs, shutdownVars>>
    /\ UNCHANGED <<throttleVars, capVars>>

\* lines 94-96 and 110-121: a pass begins and lists the LogicVolumes; a
\* failed or empty list ends it. A goroutine of Reconcile runs for a delete
\* event; the ticker goroutine runs while its loop is alive
PassStart(w, fault, order) ==
    LET present == {n \in LVNames : lvs[n].exists}
        listed == [i \in 1..Len(order) |-> [name |-> order[i], obj |-> lvs[order[i]]]]
        failed == FailedList("lvs", fault)
        ret == ListsRet(failed, present)
        l == [IdleWk(ret) EXCEPT
                !.known = exhaustedBefore \cup UNION {Exhausted(v) : v \in Workers}]
    IN  /\ ~crashed
        /\ wk[w].pc = "idle"
        /\ w \in EventWorkers => events > 0
        /\ w = "event2" => wk["event"].pc # "idle"
        /\ w = "timer" => ticker = "running"
        /\ order \in LVOrders(present)
        /\ events' = IF w \in EventWorkers THEN events - 1 ELSE events
        /\ Step(w, IF ret # "none" THEN [l EXCEPT !.listErr = failed]
                   ELSE [l EXCEPT !.pc = "nodes", !.lvList = listed],
                Op(w, "list", "lvs", "", failed = "none"))
        /\ UNCHANGED <<lvs, claims, cacheNoDeleteLv, crashed>>
        /\ RebuildFrame

\* lines 124-137: the nodes are listed and classified
ListNodes(w, fault) ==
    LET l == wk[w]
        failed == FailedList("nodes", fault)
        ret == ListsRet(failed, {l.lvList[i].name : i \in DOMAIN l.lvList})
    IN  /\ ~crashed
        /\ l.pc = "nodes"
        /\ Step(w, IF ret # "none"
                   THEN [Return(l, ret) EXCEPT !.listErr = failed]
                   ELSE [l EXCEPT !.pc = "pvs",
                                  !.nodeStatus = NodeStatusMap(nodes)],
                Op(w, "list", "nodes", "", failed = "none"))
        /\ UNCHANGED <<lvs, claims, cacheNoDeleteLv, events, crashed>>
        /\ RebuildFrame

\* lines 139-143: the PersistentVolumes are listed
ListPvs(w, fault) ==
    LET l == wk[w]
        failed == FailedList("pvs", fault)
        ret == ListsRet(failed, {l.lvList[i].name : i \in DOMAIN l.lvList})
    IN  /\ ~crashed
        /\ l.pc = "pvs"
        /\ Step(w, IF ret # "none"
                   THEN [Return(l, ret) EXCEPT !.listErr = failed]
                   ELSE [l EXCEPT !.pc = "scan",
                                  !.listErr = failed,
                                  !.pvMap = IF failed = "none" THEN PvMap(pvs)
                                            ELSE {}],
                Op(w, "list", "pvs", "", failed = "none"))
        /\ UNCHANGED <<lvs, claims, cacheNoDeleteLv, events, crashed>>
        /\ RebuildFrame

\* where getNeedRebuildVolume goes after an iteration: the next listed
\* LogicVolume, or (lines 96-102, 197) rebuildVolume with the candidates,
\* which returns nil at once when there is none
AfterScan(l, vmap) ==
    LET rest == Tail(l.lvList)
        m == [l EXCEPT !.lvList = rest, !.volumeObjectMap = vmap]
    IN  IF rest # <<>> THEN [m EXCEPT !.pc = "scan"]
        ELSE IF vmap = {} THEN Return(m, "nil")
        ELSE [m EXCEPT !.pc = "rebuild", !.pending = vmap]

\* what a part of an iteration that made the result r leaves of the pass:
\* an error returns from it, the orphan's patch or lines 175-189 are still
\* to come, or the iteration is over
AfterPart(l, item, r) ==
    LET vmap == IF r.cand
                THEN l.volumeObjectMap \cup {<<item.name, item.obj.pvc>>}
                ELSE l.volumeObjectMap
        m == IF r.call.op = "patch" /\ r.call.ok
             THEN [l EXCEPT !.patched = @ \cup {item.name}] ELSE l
    IN  IF r.err THEN Return([l EXCEPT !.volumeObjectMap = vmap], "err")
        ELSE IF r.patch THEN [l EXCEPT !.pc = "patch"]
        ELSE IF r.select THEN [l EXCEPT !.pc = "select"]
        ELSE AfterScan(m, vmap)

\* lines 145-174: the next listed LogicVolume is examined, up to and with
\* the first cluster call of the iteration or the read of the negative
\* cache; an error returns from the pass. The read of the negative cache
\* (line 172) is not synchronised with the write of another goroutine
\* (line 200): the runtime may end the process (concurrent map read and
\* map write)
ScanStep(w, fault, fatal) ==
    LET l == wk[w]
        item == Head(l.lvList)
        r == ScanLV(w, item.name, item.obj, lvs[item.name], l.pvMap,
                    l.nodeStatus, cacheNoDeleteLv, fault)
    IN  /\ ~crashed
        /\ l.pc = "scan"
        /\ fatal => (ReadsCache(w) /\ \E v \in Workers \ {w} : WritesCache(v))
        /\ fault # "none" => r.call # NoCall
        /\ IF fatal
           THEN /\ crashed' = TRUE
                /\ Step(w, [l EXCEPT !.pc = "panic"], NoCall)
                /\ UNCHANGED lvs
           ELSE /\ lvs' = [lvs EXCEPT ![item.name] = r.lv]
                /\ Step(w, AfterPart(l, item, r), r.call)
                /\ UNCHANGED crashed
        /\ UNCHANGED <<claims, cacheNoDeleteLv, events>>
        /\ RebuildFrame

\* lines 175-189: the Success volume that the negative cache did not hold
\* when line 172 read it is checked against the nodes, entered in
\* volumeObjectMap and its finalizer patched away
SelectStep(w, fault) ==
    LET l == wk[w]
        item == Head(l.lvList)
        r == SelectLV(w, item.name, item.obj, lvs[item.name], l.nodeStatus, fault)
    IN  /\ ~crashed
        /\ l.pc = "select"
        /\ fault # "none" => r.call # NoCall
        /\ lvs' = [lvs EXCEPT ![item.name] = r.lv]
        /\ Step(w, AfterPart(l, item, r), r.call)
        /\ UNCHANGED <<claims, cacheNoDeleteLv, events, crashed>>
        /\ RebuildFrame

\* lines 159-167: the finalizer patch of the orphan that has been deleted
OrphanPatch(w, fault) ==
    LET l == wk[w]
        item == Head(l.lvList)
        r == PatchOrphan(w, item.name, item.obj, lvs[item.name], fault)
    IN  /\ ~crashed
        /\ l.pc = "patch"
        /\ lvs' = [lvs EXCEPT ![item.name] = r.lv]
        /\ Step(w, IF r.err THEN Return(l, "err")
                   ELSE AfterScan([l EXCEPT !.patched = @ \cup {item.name}],
                                  l.volumeObjectMap),
                r.call)
        /\ UNCHANGED <<claims, cacheNoDeleteLv, events, crashed>>
        /\ RebuildFrame

(***************************************************************************)
(* NodeReconciler.rebuildVolume                                            *)
(***************************************************************************)

\* lines 205-219: the new claim keeps namespace, name and the copied spec
\* fields of the fetched claim; volume name and status are dropped
NewPvc(pvc) ==
    [exists |-> TRUE, spec |-> pvc.spec, volumeName |-> "", status |-> ""]


\* lines 200-203: what a failed fetch of the claim leaves in the cache
CacheOnFetchFail(cache, name) == cache \cup {name}

\* lines 230-237: what exhausted retries leave in the cache
CacheOnExhausted(cache, name) == cache

\* line 232: the warning dereferences Spec.StorageClassName and
\* Spec.VolumeMode of the new claim
WarnPanics(newPvc) == newPvc.spec = "nil-sc"

\* where rebuildVolume goes after a candidate: the next one, or return nil
AfterCandidate(l, left) ==
    IF left = {} THEN Return(l, "nil")
    ELSE [l EXCEPT !.pc = "rebuild", !.pending = left, !.key = <<>>,
                   !.newPvc = AbsentClaim, !.attempts = 0]

\* lines 197-219: the claim of the next candidate (map order) is fetched;
\* the new claim is made of the fetched one
RebuildStart(w, key, fault) ==
    LET l == wk[w]
        pvc == claims[key[2]]
        getOk == pvc.exists /\ fault = "none"
    IN  /\ ~crashed
        /\ l.pc = "rebuild"
        /\ key \in l.pending
        /\ Step(w, IF getOk
                   THEN [l EXCEPT !.pc = "delete", !.key = key,
                                  !.newPvc = NewPvc(pvc), !.attempts = 0]
                   ELSE [l EXCEPT !.pc = "cache", !.key = key],
                PvcOp(w, "get", key[2], getOk, IF getOk THEN pvc.spec ELSE ""))
        /\ UNCHANGED <<lvs, claims, cacheNoDeleteLv, events, crashed>>
        /\ RebuildFrame

\* lines 200-203: a failed fetch is cached and the candidate skipped. The
\* write of the map is not synchronised with the reads (line 172) and
\* writes (line 200) of the other goroutines: the runtime may end the
\* process (concurrent map writes, concurrent map read and map write)
CacheWrite(w, fatal) ==
    LET l == wk[w]
        left == l.pending \ {l.key}
    IN  /\ ~crashed
        /\ l.pc = "cache"
        /\ fatal => \E v \in Workers \ {w} : ReadsCache(v) \/ WritesCache(v)
        /\ IF fatal
           THEN /\ crashed' = TRUE
                /\ Step(w, [l EXCEPT !.pc = "panic"], NoCall)
                /\ UNCHANGED cacheNoDeleteLv
           ELSE /\ cacheNoDeleteLv' = CacheOnFetchFail(cacheNoDeleteLv, l.key[1])
                /\ Step(w, AfterCandidate(l, left), NoCall)
                /\ UNCHANGED crashed
        /\ UNCHANGED <<lvs, claims, events>>
        /\ RebuildFrame

\* lines 221-225: the fetched claim is deleted; a failure is logged only
DeleteClaim(w, fault) ==
    LET l == wk[w]
        ck == l.key[2]
        delOk == claims[ck].exists /\ fault = "none"
    IN  /\ ~crashed
        /\ l.pc = "delete"
        /\ claims' = IF delOk THEN [claims EXCEPT ![ck] = AbsentClaim]
                     ELSE claims
        /\ Step(w, [l EXCEPT !.pc = "create"], PvcOp(w, "delete", ck, delOk, ""))
        /\ UNCHANGED <<lvs, cacheNoDeleteLv, events, crashed>>
        /\ RebuildFrame

\* utils.UntilMaxRetry(f, retries, interval): f is called until it returns
\* nil, at most retries times, interval apart. After call number calls,
\* which succeeded or not: the loop returns nil ("ok"), returns the error
\* ("err") or waits for the next call ("again")
UntilMaxRetry(ok, calls, retries) ==
    IF ok THEN "ok"
    ELSE IF calls >= retries THEN "err"
    ELSE "again"

\* line 228: r.Create fails while a claim of that name exists, or for
\* reasons of the cluster's own
CreateOk(exists, fault) == ~exists /\ fault = "none"

\* lines 227-237: one attempt to create the new claim. Success goes on to
\* the next candidate; after the last failed attempt the warning is logged
\* (it may panic) and the error is returned
CreateClaim(w, fault) ==
    LET l == wk[w]
        ck == l.key[2]
        ok == CreateOk(claims[ck].exists, fault)
        calls == l.attempts + 1
        r == UntilMaxRetry(ok, calls, CreateRetries)
        left == l.pending \ {l.key}
        c == PvcOp(w, "create", ck, ok, l.newPvc.spec)
    IN  /\ ~crashed
        /\ l.pc = "create"
        /\ IF r = "ok" THEN
              /\ claims' = [claims EXCEPT ![ck] = l.newPvc]
              /\ Step(w, AfterCandidate([l EXCEPT !.created = @ \cup {ck}], left), c)
              /\ UNCHANGED <<cacheNoDeleteLv, crashed>>
           ELSE IF r = "again" THEN
              /\ Step(w, [l EXCEPT !.attempts = calls], c)
              /\ UNCHANGED <<claims, cacheNoDeleteLv, crashed>>
           ELSE
              /\ cacheNoDeleteLv' = CacheOnExhausted(cacheNoDeleteLv, l.key[1])
              /\ crashed' = WarnPanics(l.newPvc)
              /\ Step(w, IF WarnPanics(l.newPvc)
                         THEN [l EXCEPT !.pc = "panic", !.attempts = calls]
                         ELSE [Return(l, "err") EXCEPT !.attempts = calls,
                                                       !.key = l.key],
                      c)
              /\ UNCHANGED claims
        /\ UNCHANGED <<lvs, events>>
        /\ RebuildFrame

(***************************************************************************)
(* The environment of NodeReconciler.                                      *)
(***************************************************************************)
\* a change of the cluster from outside: the records of the passes that
\* have returned describe the cluster as it was and are cleared, and what
\* ran out of retries before may be tried again
ClearRecords ==
    /\ wk' = [v \in Workers |->
                IF wk[v].pc = "idle" THEN IdleWk("none") ELSE wk[v]]
    /\ lastCall' = NoCall
    /\ exhaustedBefore' = {}

\* the goroutines of Reconcile that run or are about to
EventPasses ==
    events + Cardinality({v \in EventWorkers : wk[v].pc # "idle"})

\* lines 49-57, 80: a Node is deleted and its delete event reaches
\* Reconcile, which starts a pass in a goroutine of its own
NodeDeleteEvent(n) ==
    /\ ~crashed
    /\ nodes[n].exists
    /\ EventPasses < Cardinality(EventWorkers)
    /\ nodes' = [nodes EXCEPT ![n] = AbsentNode]
    /\ events' = events + 1
    /\ ClearRecords
    /\ UNCHANGED <<lvs, pvs, claims, cacheNoDeleteLv, crashed>>
    /\ UNCHANGED <<throttleVars, capVars, shutdownVars>>

(***************************************************************************)
(* The cluster the rebuild controller starts in.                           *)
(***************************************************************************)
LVObj(name, owners, status, finalizers) ==
    [exists |-> TRUE, owners |-> owners, status |-> status,
     finalizers |-> finalizers, deleting |-> FALSE,
     nodeName |-> LVNode(name), pvc |-> LVClaim(name)]

RunningNode == [exists |-> TRUE, deleting |-> FALSE, phase |-> "Running"]

TerminatedNode == [exists |-> TRUE, deleting |-> FALSE, phase |-> "Terminated"]

DeletingNode == [exists |-> TRUE, deleting |-> TRUE, phase |-> "Running"]

\* a claim bound to a volume, with the spec fields `spec`
BoundClaim(spec) ==
    [exists |-> TRUE, spec |-> spec, volumeName |-> "pv", status |-> "Bound"]

\* a LogicVolume that another subsystem owns
OwnedLV(name) == LVObj(name, {"bcache"}, "Success", {LogicVolumeFinalizer})

\* lv1 as the controller may find it, with (pv) or without PersistentVolume:
\* provisioned, not yet provisioned or failed, with or without the rebuild
\* finalizer, or owned by another subsystem
Lv1Cases ==
    {[lv |-> LVObj("lv1", {}, "Success", {LogicVolumeFinalizer}), pv |-> TRUE],
     [lv |-> LVObj("lv1", {}, "", {LogicVolumeFinalizer}), pv |-> TRUE],
     [lv |-> LVObj("lv1", {}, "Failed", {}), pv |-> TRUE],
     [lv |-> LVObj("lv1", {}, "Failed", {LogicVolumeFinalizer}), pv |-> FALSE],
     [lv |-> LVObj("lv1", {}, "Success", {}), pv |-> FALSE],
     [lv |-> OwnedLV("lv1"), pv |-> FALSE]}

\* ---------------------------------------------------------------------
\* PodReconciler: block-I/O throttling (pod_controller.go)

KubernetesCustomized == "kubernetes.customized"

BlkIOThrottleReadBPS == "blkio.throttle.read_bps_device"

BlkIOThrottleReadIOPS == "blkio.throttle.read_iops_device"

BlkIOThrottleWriteBPS == "blkio.throttle.write_bps_device"

BlkIOThrottleWriteIOPS == "blkio.throttle.write_iops_device"

\* the driver name of this system, as the example storage class gives it
CSIPluginName == "carina.storage.io"

\* lines 159 and 299: the four limit kinds, in the order both paths use
Kinds ==
    <<BlkIOThrottleReadBPS, BlkIOThrottleReadIOPS,
      BlkIOThrottleWriteBPS, BlkIOThrottleWriteIOPS>>

KindSet == {Kinds[i] : i \in DOMAIN Kinds}

PodNames == {"a", "b"}

DevKeys == {"8:16", "8:32", "8:48"}

LimitValues == {"104857600", "200"}

\* the volumes of the cluster: two of this driver, bound to the claims c1
\* and c2, and a volume of another driver bound to c3
PersistentVolumes ==
    { [name |-> "pv1", driver |-> CSIPluginName, claimRef |-> "ns-c1",
       major |-> "8", minor |-> "16"],
      [name |-> "pv2", driver |-> CSIPluginName, claimRef |-> "ns-c2",
       major |-> "8", minor |-> "32"],
      [name |-> "pv3", driver |-> "other.csi.io", claimRef |-> "ns-c3",
       major |-> "8", minor |-> "48"] }

EmptyMap == [k \in {} |-> ""]

\* m[k] = v of a Go map
MapSet(m, k, v) == [x \in DOMAIN m \cup {k} |-> IF x = k THEN v ELSE m[x]]

\* delete(m, k) of a Go map
MapDelete(m, k) == [x \in DOMAIN m \ {k} |-> m[x]]

AbsentPod == [exists |-> FALSE, volumes |-> <<>>, annotations |-> EmptyMap]

\* lines 108-125: the index lists a volume under its claim only when the
\* volume is of this driver
PvIndex(pv) == IF pv.driver # CSIPluginName THEN {} ELSE {pv.claimRef}

\* lines 172-173, 222-223: the volumes the index holds for a claim of the
\* namespace "ns"
PvListItems(claimName) ==
    {pv \in PersistentVolumes : ("ns-" \o claimName) \in PvIndex(pv)}

\* lines 189, 238
BlkioKey(pvInfo) == pvInfo.major \o ":" \o pvInfo.minor

\* lines 168-189, 218-238: the device key of one claim-backed volume of a
\* pod, if the lookup succeeds and finds exactly one volume of this driver
ResolveVolume(volume, failed) ==
    IF failed THEN [ok |-> FALSE, key |-> ""]
    ELSE LET items == PvListItems(volume) IN
         IF Cardinality(items) # 1 THEN [ok |-> FALSE, key |-> ""]
         ELSE LET pvInfo == CHOOSE pv \in items : TRUE IN
              IF pvInfo.driver # CSIPluginName
              THEN [ok |-> FALSE, key |-> ""]
              ELSE [ok |-> TRUE, key |-> BlkioKey(pvInfo)]

\* lines 192, 242
AnnotationKey(name) == KubernetesCustomized \o "/" \o name

\* lines 240-250: the full pass clears a device without annotation only
\* when the host file held the device when the pass read it
LayerAll(c, blkioKey, annotations) ==
    IF AnnotationKey(c.name) \in DOMAIN annotations
    THEN [c EXCEPT !.newBlkio =
                       MapSet(@, blkioKey, annotations[AnnotationKey(c.name)])]
    ELSE IF blkioKey \in DOMAIN c.oldBlkio
         THEN [c EXCEPT !.newBlkio = MapSet(@, blkioKey, "0")]
         ELSE c

\* a single-pod path that would clear only what the host file holds
LayerSingleAsAll(c, blkioKey, annotations) == LayerAll(c, blkioKey, annotations)

\* lines 191-199: the single-pod path sets the annotation or "0"
LayerSingle(c, blkioKey, annotations) ==
    IF AnnotationKey(c.name) \in DOMAIN annotations
    THEN [c EXCEPT !.newBlkio =
                       MapSet(@, blkioKey, annotations[AnnotationKey(c.name)])]
    ELSE [c EXCEPT !.newBlkio = MapSet(@, blkioKey, "0")]

\* lines 172-200, 222-251: one claim-backed volume of a pod: the lookup of
\* its PersistentVolume and the loop over cb
LayerVolume(cb, volume, annotations, failed, full) ==
    LET r == ResolveVolume(volume, failed) IN
    IF ~r.ok THEN cb
    ELSE [i \in DOMAIN cb |->
             IF full THEN LayerAll(cb[i], r.key, annotations)
             ELSE LayerSingle(cb[i], r.key, annotations)]

RECURSIVE LayerVolumes(_, _, _)
\* lines 218-251: the loop over the volumes of one pod of the full pass,
\* every lookup succeeding
LayerVolumes(cb, volumes, annotations) ==
    IF volumes = <<>> THEN cb
    ELSE LayerVolumes(IF Head(volumes) = "" THEN cb
                      ELSE LayerVolume(cb, Head(volumes), annotations,
                                       FALSE, TRUE),
                      Tail(volumes), annotations)

RECURSIVE LayerPods(_, _)
\* lines 217-252: the loop over the listed pods, in the order of the list
LayerPods(cb, podItems) ==
    IF podItems = <<>> THEN cb
    ELSE LayerPods(LayerVolumes(cb, Head(podItems).volumes,
                                Head(podItems).annotations),
                   Tail(podItems))

\* lines 158-166, 301-306
NewCgroupblkio(name, oldBlkio) ==
    [name |-> name, oldBlkio |-> oldBlkio, newBlkio |-> EmptyMap]

\* a write step that drops nothing
SuppressNothing(c) == c

\* lines 336-342: drop the desired entries the host file already holds
Suppress(c) ==
    [c EXCEPT !.newBlkio =
        [k \in {x \in DOMAIN c.newBlkio :
                   ~(x \in DOMAIN c.oldBlkio /\ c.oldBlkio[x] = c.newBlkio[x])}
           |-> c.newBlkio[k]]]

\* lines 343-348: the commands of one kind: one for every entry left in
\* newBlkio; the loop over the Go map runs them in any order
MapCommands(c) ==
    {[kind |-> c.name, dev |-> k, val |-> Suppress(c).newBlkio[k]] :
        k \in DOMAIN Suppress(c).newBlkio}

\* lines 328-330: the host removes the entry on "0" and sets it otherwise;
\* a command on a missing file fails
ExecuteCommand(files, cmd, failed) ==
    IF failed \/ files[cmd.kind].state = "missing" THEN files
    ELSE [files EXCEPT ![cmd.kind].limits =
             IF cmd.val = "0" THEN MapDelete(@, cmd.dev)
             ELSE MapSet(@, cmd.dev, cmd.val)]

\* the ticker goroutine of line 131 and the Reconcile worker
ThrottleRoutines == {"ticker", "worker"}

\* a goroutine that runs no pass: items are the pods of the pass, pi and vi
\* the pod and the volume the loop is at, ki the file the read is at, writes
\* and failed the commands run and the commands that failed, pvErr the
\* claims whose lookup failed
IdlePass ==
    [pc |-> "idle", path |-> "none", items |-> <<>>, pi |-> 1, vi |-> 1,
     ki |-> 1, cb |-> <<>>, writes |-> {}, failed |-> {}, pvErr |-> {},
     ret |-> "none"]

\* the pod object a List or Get returns
PodObj(p) ==
    [name |-> p, volumes |-> pods[p].volumes,
     annotations |-> pods[p].annotations]

RECURSIVE SeekVolume(_, _, _)
\* lines 168-171, 217-221: the loops skip the volumes without claim
SeekVolume(items, pi, vi) ==
    IF pi > Len(items) THEN <<pi, 1>>
    ELSE IF vi > Len(items[pi].volumes) THEN SeekVolume(items, pi + 1, 1)
    ELSE IF items[pi].volumes[vi] = "" THEN SeekVolume(items, pi, vi + 1)
    ELSE <<pi, vi>>

\* lines 343-348: the commands of cb[i] that have not run yet
Remaining(l, i) == MapCommands(l.cb[i]) \ l.writes

\* lines 333, 343: the commands the write step can run next: those of the
\* first kind of cb that has a command left
Runnable(l) ==
    UNION {IF \A j \in 1..(i - 1) : Remaining(l, j) = {}
           THEN Remaining(l, i) ELSE {} : i \in DOMAIN l.cb}

\* the pass runs on to its next call: the lookup of the next claim-backed
\* volume, the next command of the write step, or the return of line 203
\* or 255
ToNextCall(l) ==
    LET pos == SeekVolume(l.items, l.pi, l.vi)
        w   == [l EXCEPT !.pi = pos[1], !.vi = pos[2], !.ki = 1]
    IN IF pos[1] <= Len(l.items) THEN [w EXCEPT !.pc = "resolve"]
       ELSE IF Runnable(w) # {}
            THEN [w EXCEPT !.pc = "write"]
            ELSE [w EXCEPT !.pc = "done", !.ret = "nil"]

\* a pod of the pass references the device through a claim that resolves
References(pod, dev) ==
    \E i \in DOMAIN pod.volumes :
        /\ pod.volumes[i] # ""
        /\ ResolveVolume(pod.volumes[i], FALSE).ok
        /\ ResolveVolume(pod.volumes[i], FALSE).key = dev

\* a full pass that listed the pods, resolved every volume and ran every
\* command
CleanFull(l) ==
    /\ l.pc = "done" /\ l.path = "full" /\ l.ret = "nil"
    /\ l.failed = {} /\ l.pvErr = {}

\* the keys a full pass without failure cleared, each held by the host when
\* the pass read it and referenced by a listed pod without the annotation
\* of the kind
ZeroedNow(l) ==
    {kd \in KindSet \X DevKeys :
        /\ \E i \in DOMAIN l.cb :
              l.cb[i].name = kd[1] /\ kd[2] \in DOMAIN l.cb[i].oldBlkio
        /\ \E j \in DOMAIN l.items :
              /\ References(l.items[j], kd[2])
              /\ AnnotationKey(kd[1]) \notin DOMAIN l.items[j].annotations
        /\ [kind |-> kd[1], dev |-> kd[2], val |-> "0"] \in l.writes}

\* one step of goroutine g, which leaves it at l; the record of a pass that
\* has returned is dropped at the next step
ThrottleStep(g, l) ==
    tpass' = [h \in ThrottleRoutines |->
                 IF h = g THEN l
                 ELSE IF tpass[h].pc = "done" THEN IdlePass ELSE tpass[h]]

\* the history of the full passes: when the ticker's pass returns, whether
\* it was without failure and undisturbed, and what it cleared
TickerHistory(l) ==
    IF l.pc = "done"
    THEN /\ cleanBefore' = (CleanFull(l) /\ ~dirty)
         /\ zeroedBefore' = IF CleanFull(l) /\ ~dirty THEN ZeroedNow(l) ELSE {}
         /\ UNCHANGED dirty
    ELSE UNCHANGED <<cleanBefore, zeroedBefore, dirty>>

\* the host or the pods change under the full passes
Disturbed ==
    /\ dirty' = TRUE
    /\ cleanBefore' = FALSE
    /\ zeroedBefore' = {}

\* lines 133-136, 206-213: a tick starts a full pass, which lists the pods
\* of the node; the list comes in the order of the cache, which the code
\* does not fix
AllPodCGroupConfig(order, fault) ==
    /\ ~crashed
    /\ tpass["ticker"].pc \in {"idle", "done"}
    /\ IF fault = "pods"
       THEN /\ ThrottleStep("ticker", [IdlePass EXCEPT !.pc = "done",
                                          !.path = "full", !.ret = "err"])
            /\ cleanBefore' = FALSE
            /\ zeroedBefore' = {}
            /\ dirty' = FALSE
       ELSE /\ ThrottleStep("ticker",
                   [IdlePass EXCEPT !.pc = "read", !.path = "full",
                        !.items = [i \in DOMAIN order |-> PodObj(order[i])]])
            /\ dirty' = FALSE
            /\ UNCHANGED <<cleanBefore, zeroedBefore>>
    /\ UNCHANGED <<pods, hostFile, crashed>>
    /\ UNCHANGED <<rebuildVars, capVars, reconcileVars>>

\* lines 299-324: the read of one file: a file that cannot be opened is
\* left out of cb; line 321 indexes the second field of every line, so a
\* line without a separator ends the process
ReadCGroupBlkioFile ==
    /\ ~crashed
    /\ tpass["ticker"].pc = "read"
    /\ LET l    == tpass["ticker"]
           name == Kinds[l.ki]
           f    == hostFile[name]
       IN IF f.state = "malformed"
          THEN /\ crashed' = TRUE
               /\ ThrottleStep("ticker", [l EXCEPT !.pc = "done",
                                                   !.ret = "panic"])
               /\ cleanBefore' = FALSE
               /\ zeroedBefore' = {}
               /\ UNCHANGED dirty
          ELSE LET cb == IF f.state = "missing" THEN l.cb
                         ELSE Append(l.cb, NewCgroupblkio(name, f.limits))
                   n  == IF l.ki < Len(Kinds)
                         THEN [l EXCEPT !.cb = cb, !.ki = @ + 1]
                         ELSE ToNextCall([l EXCEPT !.cb = cb])
               IN /\ ThrottleStep("ticker", n)
                  /\ TickerHistory(n)
                  /\ UNCHANGED crashed
    /\ UNCHANGED <<pods, hostFile>>
    /\ UNCHANGED <<rebuildVars, capVars, reconcileVars>>

\* Reconcile has returned
DoneRec(r, ret) == [r EXCEPT !.pc = "done", !.ret = ret]

\* lines 89-93: the worker's Reconcile returns when its pass returns
WorkerReturn(r, l) ==
    IF l.pc = "done" THEN DoneRec([r EXCEPT !.configured = TRUE], "nil")
    ELSE r

\* what the step of goroutine g that leaves its pass at l, and ran a
\* command or not, does to the history and to Reconcile
AfterCall(g, l, wrote) ==
    IF g = "ticker"
    THEN /\ TickerHistory(l)
         /\ UNCHANGED reconcileVars
    ELSE /\ rec' = WorkerReturn(rec, l)
         /\ UNCHANGED podStatus
         /\ IF wrote THEN Disturbed
            ELSE UNCHANGED <<cleanBefore, zeroedBefore, dirty>>

\* lines 172-200, 222-251: the lookup of the PersistentVolume of the next
\* claim-backed volume and the desired values it gives
ListPv(g, fault) ==
    /\ ~crashed
    /\ tpass[g].pc = "resolve"
    /\ LET l      == tpass[g]
           p      == l.items[l.pi]
           volume == p.volumes[l.vi]
           cb     == LayerVolume(l.cb, volume, p.annotations, fault = "pv",
                                 l.path = "full")
           n      == ToNextCall([l EXCEPT !.cb = cb, !.vi = @ + 1,
                                    !.pvErr = IF fault = "pv"
                                              THEN @ \cup {volume} ELSE @])
       IN /\ ThrottleStep(g, n)
          /\ AfterCall(g, n, FALSE)
    /\ UNCHANGED <<pods, hostFile, crashed>>
    /\ UNCHANGED <<rebuildVars, capVars>>

\* lines 332-350: one command of the write step: the first kind of cb that
\* has a command left, any of its commands; a failed command is logged and
\* the loop goes on
WriteCgroupBlkioFile(g, cmd, fault) ==
    /\ ~crashed
    /\ tpass[g].pc = "write"
    /\ LET l == tpass[g] IN
       /\ cmd \in Runnable(l)
       /\ LET failed == fault = "exec" \/ hostFile[cmd.kind].state = "missing"
              n == ToNextCall([l EXCEPT !.writes = @ \cup {cmd},
                                        !.failed = IF failed THEN @ \cup {cmd}
                                                   ELSE @])
          IN /\ hostFile' = ExecuteCommand(hostFile, cmd, fault = "exec")
             /\ ThrottleStep(g, n)
             /\ AfterCall(g, n, TRUE)
    /\ UNCHANGED <<pods, crashed>>
    /\ UNCHANGED <<rebuildVars, capVars>>

\* lines 154-166: the pass for one pod starts from four empty previous
\* maps and runs on to its first lookup
SinglePodCGroupConfig(pod) ==
    ToNextCall([IdlePass EXCEPT
                   !.path = "single", !.items = <<pod>>,
                   !.cb = [i \in DOMAIN Kinds |->
                              NewCgroupblkio(Kinds[i], EmptyMap)]])

\* the pod is deleted: line 277 filters the event out
PodDeleted(p) ==
    /\ ~crashed
    /\ pods[p].exists
    /\ pods' = [pods EXCEPT ![p] = AbsentPod]
    /\ Disturbed
    /\ UNCHANGED <<hostFile, tpass, crashed>>
    /\ UNCHANGED <<rebuildVars, capVars, reconcileVars>>

\* the orders in which the list can return the pods that exist
PodOrders ==
    LET present == {p \in PodNames : pods[p].exists} IN
    {o \in UNION {[1..n -> present] : n \in 0..Cardinality(PodNames)} :
        /\ Len(o) = Cardinality(present)
        /\ \A i, j \in DOMAIN o : i # j => o[i] # o[j]}

PodAnnotations ==
    { EmptyMap,
      [k \in {AnnotationKey(BlkIOThrottleReadBPS)} |-> "104857600"],
      [k \in {AnnotationKey(BlkIOThrottleReadBPS)} |-> "0"],
      [k \in {AnnotationKey(BlkIOThrottleReadBPS),
              AnnotationKey(BlkIOThrottleWriteIOPS)} |->
          IF k = AnnotationKey(BlkIOThrottleReadBPS) THEN "200" ELSE "104857600"] }

\* pod a is absent, has one claim-backed volume with any of the annotation
\* sets, has a volume without claim and two claim-backed volumes, or has a
\* volume of another driver; pod b is absent or shares the device of claim
\* c1 and carries an annotation
PodInit(p) ==
    IF p = "a"
    THEN {AbsentPod} \cup
         [exists : {TRUE}, volumes : {<<"c1">>},
          annotations : {m \in PodAnnotations : Cardinality(DOMAIN m) < 2}]
         \cup
         {[exists |-> TRUE, volumes |-> v,
           annotations |->
              [k \in {AnnotationKey(BlkIOThrottleReadBPS),
                      AnnotationKey(BlkIOThrottleWriteIOPS)} |->
                  IF k = AnnotationKey(BlkIOThrottleReadBPS) THEN "200"
                  ELSE "104857600"]] : v \in {<<"", "c1", "c2">>, <<"c3">>}}
    ELSE {AbsentPod,
          [exists |-> TRUE, volumes |-> <<"c1">>,
           annotations |->
              [k \in {AnnotationKey(BlkIOThrottleReadBPS)} |-> "104857600"]]}

OkFile(limits) == [state |-> "ok", limits |-> limits]

\* the host files at start: no limit; limits of earlier passes; a device
\* nothing in the cluster refers to; a file that is missing; a file with a
\* line that has no separator
HostInit ==
    { [k \in KindSet |-> OkFile(EmptyMap)],
      [k \in KindSet |->
          IF k = BlkIOThrottleReadBPS
          THEN OkFile([d \in {"8:16"} |-> "104857600"])
          ELSE OkFile(EmptyMap)],
      [k \in KindSet |->
          IF k = BlkIOThrottleReadBPS
          THEN OkFile([d \in {"8:16", "8:32"} |-> "200"])
          ELSE IF k = BlkIOThrottleWriteIOPS
               THEN OkFile([d \in {"8:16", "8:48"} |-> "104857600"])
               ELSE OkFile(EmptyMap)],
      [k \in KindSet |->
          IF k = BlkIOThrottleReadBPS
          THEN [state |-> "missing", limits |-> EmptyMap]
          ELSE OkFile(EmptyMap)],
      [k \in KindSet |->
          IF k = BlkIOThrottleWriteBPS
          THEN [state |-> "malformed", limits |-> EmptyMap]
          ELSE OkFile(EmptyMap)] }

\* line 78: the number of polls for the Running phase
MaxPolls == 5

NoPod == [name |-> "", volumes |-> <<>>, annotations |-> EmptyMap]

IdleRec ==
    [pc |-> "idle", pod |-> "", obj |-> NoPod, found |-> FALSE,
     deleting |-> FALSE, phase |-> "", i |-> 0, polls |-> 0,
     configured |-> FALSE, ret |-> "none"]

\* lines 78-81: the head of the polling loop, on the pod object the
\* invocation holds: leave the loop when the budget is used up or the pod is
\* Running, poll otherwise
LoopHead(r) ==
    IF r.i >= MaxPolls \/ r.phase = "Running"
    THEN [r EXCEPT !.pc = "config"]
    ELSE [r EXCEPT !.pc = "poll"]

\* lines 89-93: Reconcile has left the polling loop: the single-pod pass
\* starts on the pod object the invocation holds
EnterConfig(r) ==
    /\ IF r.pc = "config"
       THEN LET l == SinglePodCGroupConfig(r.obj) IN
            /\ ThrottleStep("worker", l)
            /\ rec' = WorkerReturn(r, l)
       ELSE /\ ThrottleStep("worker", IdlePass)
            /\ rec' = r
    /\ UNCHANGED <<pods, hostFile, zeroedBefore, cleanBefore, dirty,
                   podStatus, crashed>>
    /\ UNCHANGED <<rebuildVars, capVars>>

\* lines 61-81: Reconcile is called for pod p and fetches it; a pod that is
\* not found or carries a deletion marker ends the invocation
ReconcileGet(p, fault) ==
    /\ ~crashed
    /\ rec.pc \in {"idle", "done"}
    /\ EnterConfig(
          IF fault = "get" THEN DoneRec([IdleRec EXCEPT !.pod = p], "err")
          ELSE IF ~pods[p].exists THEN DoneRec([IdleRec EXCEPT !.pod = p], "nil")
          ELSE LET r == [IdleRec EXCEPT !.pod = p, !.obj = PodObj(p),
                                        !.found = TRUE,
                                        !.deleting = podStatus[p].deleting,
                                        !.phase = podStatus[p].phase]
               IN IF r.deleting THEN DoneRec(r, "nil") ELSE LoopHead(r))

\* lines 82-86: one poll: sleep, fetch the pod again; a fetch that succeeds
\* returns from Reconcile, a fetch that fails goes to the next iteration
\* with the pod object as it was
ReconcilePoll(fault) ==
    /\ ~crashed
    /\ rec.pc = "poll"
    /\ LET r == [rec EXCEPT !.polls = @ + 1] IN
       EnterConfig(
          IF fault # "get" /\ pods[rec.pod].exists
          THEN DoneRec([r EXCEPT !.obj = PodObj(rec.pod),
                                 !.phase = podStatus[rec.pod].phase], "nil")
          ELSE LoopHead([r EXCEPT !.i = @ + 1]))

\* the containers of the pod have started
PodRunning(p) ==
    /\ ~crashed
    /\ pods[p].exists
    /\ podStatus[p].phase = "Pending"
    /\ podStatus' = [podStatus EXCEPT ![p].phase = "Running"]
    /\ UNCHANGED <<pods, hostFile, tpass, zeroedBefore, cleanBefore, dirty,
                   rec, crashed>>
    /\ UNCHANGED <<rebuildVars, capVars>>

\* no invocation of Reconcile, every pod Running
ReconcileIdle ==
    /\ podStatus = [p \in PodNames |-> [phase |-> "Running", deleting |-> FALSE]]
    /\ rec = IdleRec

\* the throttle controller at rest, for the specifications of the others
ThrottleIdle ==
    /\ pods = [p \in PodNames |-> AbsentPod]
    /\ hostFile = [k \in KindSet |-> OkFile(EmptyMap)]
    /\ tpass = [g \in ThrottleRoutines |-> IdlePass]
    /\ zeroedBefore = {}
    /\ cleanBefore = FALSE
    /\ dirty = FALSE
    /\ ReconcileIdle

\* the rebuild controller at rest, for the specifications of the others
RebuildIdle ==
    /\ lvs = [n \in LVNames |-> AbsentLV]
    /\ nodes = [n \in NodeNames |-> AbsentNode]
    /\ pvs = {}
    /\ claims = [k \in ClaimKeys |-> AbsentClaim]
    /\ cacheNoDeleteLv = {}
    /\ wk = [w \in Workers |-> IdleWk("none")]
    /\ lastCall = NoCall
    /\ events = 0
    /\ exhaustedBefore = {}
    /\ stopChan = FALSE
    /\ ticker = "running"

\* PersistentVolumeReconciler: node capacity aggregation
\* (persistentvolume_controller.go)

\* utils.DeviceCapacityKeyPrefix
DeviceCapacityKeyPrefix == "carina.storage.io/"

\* a resource name is kept as its leading part and its rest, so that the
\* prefix test of lines 137 and 142 can be made
ResourceName(key) == key.prefix \o key.rest

\* strings.HasPrefix of lines 137, 142
HasPrefix(key, prefix) == key.prefix = prefix

DeviceKey == [prefix |-> DeviceCapacityKeyPrefix, rest |-> "carina-vg-hdd"]

CpuKey == [prefix |-> "", rest |-> "cpu"]

\* lines 135-149: the record of one node, empty when the node has no
\* quantity with the prefix
NodeRecord(name, node) ==
    LET cap   == {k \in DOMAIN node.capacity :
                     HasPrefix(k, DeviceCapacityKeyPrefix)}
        alloc == {k \in DOMAIN node.allocatable :
                     HasPrefix(k, DeviceCapacityKeyPrefix)}
        keys  == {"capacity." \o ResourceName(k) : k \in cap}
                 \cup {"allocatable." \o ResourceName(k) : k \in alloc}
        tmp   == [f \in keys |->
                     IF \E k \in cap : f = "capacity." \o ResourceName(k)
                     THEN ToString(node.capacity[
                              CHOOSE k \in cap :
                                  f = "capacity." \o ResourceName(k)])
                     ELSE ToString(node.allocatable[
                              CHOOSE k \in alloc :
                                  f = "allocatable." \o ResourceName(k)])]
    IN IF keys = {} THEN tmp ELSE MapSet(tmp, "nodeName", name)

RECURSIVE NodeDevice(_, _)
\* lines 133-150: the records of the listed nodes, in the order of the list
NodeDevice(order, nl) ==
    IF order = <<>> THEN <<>>
    ELSE LET tmp == NodeRecord(Head(order), nl[Head(order)]) IN
         (IF DOMAIN tmp # {} THEN <<tmp>> ELSE <<>>)
         \o NodeDevice(Tail(order), nl)

\* utils.MapEqualMap: the two maps hold the same keys with the same values
MapEqualMap(a, b) ==
    /\ DOMAIN a = DOMAIN b
    /\ \A k \in DOMAIN a : a[k] = b[k]

\* line 200: the cache holds as many entries as there are records
CacheHitLen(cache, nodeDevice) == Cardinality(DOMAIN cache) = Len(nodeDevice)

\* line 204: the cache has an entry under the node name of the record
CacheHitHas(cache, value) == value["nodeName"] \in DOMAIN cache

\* m[k] of a Go map: a missing key reads as the nil map
MapGet(m, k) == IF k \in DOMAIN m THEN m[k] ELSE EmptyMap

\* line 208: the entry under the node name of the record equals the record
CacheHitEqual(cache, value) ==
    MapEqualMap(value, MapGet(cache, value["nodeName"]))

\* lines 215-220
CacheRefresh(nodeDevice) ==
    [n \in {nodeDevice[i]["nodeName"] : i \in DOMAIN nodeDevice} |->
        nodeDevice[CHOOSE i \in DOMAIN nodeDevice : nodeDevice[i]["nodeName"] = n]]

\* line 156: the text of the list of records
MarshalJSON(nodeDevice) == ToString(nodeDevice)

AbsentConfigMap == [exists |-> FALSE, data |-> ""]

\* what one pass did: its return value, the records it computed, whether the
\* cache matched, the write it made, the API call that failed (if any), and
\* whether it ran with no other pass and no change of the cluster under it
NoCapPass ==
    [ret |-> "none", records |-> {}, hit |-> FALSE, write |-> "none",
     failed |-> "none", quiet |-> TRUE]

CacheOnWriteFailRefreshes(cache, nodeDevice) == CacheRefresh(nodeDevice)

\* lines 184, 180, 192: a failed Get, Create or Update returns before
\* cacheRefresh, the cache keeps what it had
CacheOnWriteFail(cache, nodeDevice) ==
    cache

Quantities == {10, 20}

\* a node without a disk of this system
NoDisk ==
    [capacity |-> [k \in {CpuKey} |-> 10], allocatable |-> [k \in {CpuKey} |-> 10]]

\* a node with a disk of this system of capacity c
Disk(c) ==
    [capacity    |-> [k \in {CpuKey, DeviceKey} |-> c],
     allocatable |-> [k \in {CpuKey, DeviceKey} |-> 10]]

\* the nodes at start: no disk of this system, one on n1, one on both
CapNodeInit ==
    { [n \in NodeNames |-> NoDisk],
      [n \in NodeNames |-> IF n = "n1" THEN Disk(10) ELSE NoDisk],
      [n \in NodeNames |-> Disk(10)] }

(***************************************************************************)
(* PersistentVolumeReconciler.Reconcile: the debounce of volume events.    *)
(* Time is counted in seconds from SetupWithManager.                       *)
(***************************************************************************)
\* line 53
DebounceSeconds == 15

\* line 58: rand.Int63nRange(30, 60) draws from [30, 60)
SleepMin == 30

SleepMax == 60

Int63nRange(min, max) == min .. (max - 1)

\* line 90
TickerPeriod == 60

\* the clock stops here
MaxTime == 61

\* the draws of the sleep that the model follows: the ends of the range
SleepChoices ==
    {d \in Int63nRange(SleepMin, SleepMax) : d \in {SleepMin, SleepMax - 1}}

\* names of the PersistentVolumes whose events reach the controller
PvKeys == {"pv1"}

\* what r.Get of the triggering volume finds (lines 62-75)
PvFound == {"absent", "ours", "other", "nocsi", "error"}

IdleDeb ==
    [pc |-> "idle", key |-> "none", wake |-> 0, pv |-> "none", out |-> "none",
     pass |-> FALSE]

\* a goroutine that is not in updateNodeConfigMap; fi counts the records
\* that the loop of cacheRefresh has written
IdleCw(ret) ==
    [pc |-> "idle", nodeDevice |-> <<>>, found |-> FALSE, stale |-> FALSE,
     hit |-> FALSE, write |-> "none", failed |-> "none", quiet |-> TRUE,
     hi |-> 0, fi |-> 0, ret |-> ret]

\* the ticker goroutine of line 91 and the Reconcile worker
Goroutines == {"timer", "event"}

\* the passes a goroutine begins in a run of the model
MaxPasses == 2

NoWrites ==
    [writes |-> 0, written |-> {}, started |-> [g \in Goroutines |-> 0]]

\* no pass in progress, none begun
ReentrantIdle ==
    /\ cw = [g \in Goroutines |-> IdleCw("none")]
    /\ cart = NoWrites

\* line 88 and the empty work queue of a controller that has just started
DebounceIdle ==
    /\ now = 0
    /\ lastEventTime = 0
    /\ lastRun = 0
    /\ queue = {}
    /\ deb = IdleDeb
    /\ ticks = 0

SuppressedInclusive(elapsed) == elapsed <= DebounceSeconds

\* line 53
Suppressed(elapsed) ==
    elapsed < DebounceSeconds

\* the passes in progress have the cluster change under them
Unquiet == [g \in Goroutines |->
               IF cw[g].pc = "idle" THEN cw[g] ELSE [cw[g] EXCEPT !.quiet = FALSE]]

\* the capacity of the disk of a node changes, or the node gets a disk
NodeCapacityChanged(n, node) ==
    /\ ~crashed
    /\ capNodes[n] # node
    /\ capNodes' = [capNodes EXCEPT ![n] = node]
    /\ cprev' = NoCapPass
    /\ clast' = NoCapPass
    /\ cw' = Unquiet
    /\ cart' = NoWrites
    /\ UNCHANGED <<cacheConfigMap, configMap, crashed, debounceVars>>
    /\ UNCHANGED <<rebuildVars, throttleVars>>

\* somebody deletes the artifact
ConfigMapDeleted ==
    /\ ~crashed
    /\ configMap.exists
    /\ configMap' = AbsentConfigMap
    /\ cprev' = NoCapPass
    /\ clast' = NoCapPass
    /\ cw' = Unquiet
    /\ cart' = NoWrites
    /\ UNCHANGED <<capNodes, cacheConfigMap, crashed, debounceVars>>
    /\ UNCHANGED <<rebuildVars, throttleVars>>

\* the capacity controller at rest, for the specifications of the others
CapacityIdle ==
    /\ capNodes = [n \in NodeNames |-> NoDisk]
    /\ cacheConfigMap = EmptyMap
    /\ configMap = AbsentConfigMap
    /\ cprev = NoCapPass
    /\ clast = NoCapPass
    /\ DebounceIdle
    /\ ReentrantIdle

NodeOrders ==
    {o \in [1..Cardinality(NodeNames) -> NodeNames] :
        \A i, j \in DOMAIN o : i # j => o[i] # o[j]}

(***************************************************************************)
(* updateNodeConfigMap call by call. The ticker goroutine (line 97) and    *)
(* the Reconcile worker (line 77) call it without a lock.                  *)
(***************************************************************************)
Other(g) == CHOOSE h \in Goroutines : h # g

\* what a pass that returns leaves behind
CapPass(l) ==
    [ret |-> l.ret, records |-> {l.nodeDevice[i] : i \in DOMAIN l.nodeDevice},
     hit |-> l.hit, write |-> l.write, failed |-> l.failed, quiet |-> l.quiet]

\* the pass of goroutine g returns at line 130, 153, 180, 182, 184, 192 or 195
Returned(l, ret) == [l EXCEPT !.pc = "idle", !.ret = ret]

\* a pass that returns the error of the named API call
FailedPass(l, call) == [Returned(l, "err") EXCEPT !.failed = call]

\* the history of the passes: the two that returned last, when no other
\* pass and no change of the cluster ran under them
History(l) ==
    /\ cprev' = IF l.quiet THEN clast ELSE NoCapPass
    /\ clast' = IF l.quiet THEN CapPass(l) ELSE NoCapPass

\* lines 77-81: Reconcile returns what its pass returns; a request that
\* returns an error goes back to the work queue
ReconcileReturn(g, l) ==
    IF g = "event" /\ deb.pc = "pass" /\ l.pc = "idle"
    THEN /\ deb' = [deb EXCEPT !.pc = "idle", !.pass = TRUE,
                               !.out = IF l.ret = "err" THEN "err" ELSE "nil"]
         /\ queue' = IF l.ret = "err" THEN queue \cup {deb.key} ELSE queue
    ELSE UNCHANGED <<deb, queue>>

\* one step of the pass of goroutine g, which leaves it at l; wrote says
\* that the step wrote the artifact, which makes the object the other
\* goroutine has fetched stale
CapStep(g, l, wrote) ==
    /\ cw' = [h \in Goroutines |->
                 IF h = g THEN IF l.pc = "idle" THEN IdleCw(l.ret) ELSE l
                 ELSE IF wrote /\ cw[h].pc = "write"
                      THEN [cw[h] EXCEPT !.stale = TRUE] ELSE cw[h]]
    /\ IF l.pc = "idle"
       THEN History(l)
       ELSE UNCHANGED <<cprev, clast>>
    /\ ReconcileReturn(g, l)
    /\ UNCHANGED <<now, lastEventTime, lastRun, ticks>>
    /\ UNCHANGED capNodes
    /\ UNCHANGED <<rebuildVars, throttleVars>>

\* lines 127-150: the nodes are listed and the records computed; the node
\* list comes in an order the code does not fix. The caller says what
\* starts the pass.
PassList(g, order, fault) ==
    /\ ~crashed
    /\ cw[g].pc = "idle"
    /\ cart.started[g] < MaxPasses
    /\ cart' = [cart EXCEPT !.started[g] = @ + 1]
    /\ LET l == [IdleCw("none") EXCEPT !.quiet = cw[Other(g)].pc = "idle"]
           n == IF fault = "list" THEN FailedPass(l, "list")
                ELSE [l EXCEPT !.pc = "hit",
                               !.nodeDevice = NodeDevice(order, capNodes)]
       IN /\ cw' = [h \in Goroutines |->
                       IF h = g THEN IF n.pc = "idle" THEN IdleCw(n.ret) ELSE n
                       ELSE IF cw[h].pc = "idle" THEN cw[h]
                            ELSE [cw[h] EXCEPT !.quiet = FALSE]]
          /\ IF n.pc = "idle"
             THEN History(n)
             ELSE UNCHANGED <<cprev, clast>>
          /\ ReconcileReturn(g, n)
    /\ UNCHANGED <<capNodes, cacheConfigMap, configMap, crashed>>
    /\ UNCHANGED <<rebuildVars, throttleVars>>

\* a read of the cache the other goroutine is filling (lines 217-219) is a
\* data race on the map: the runtime may end the process (concurrent map
\* read and map write), or the read goes through and the pass goes on as l
CacheRead(g, fatal, l) ==
    /\ fatal => cw[Other(g)].pc = "fill"
    /\ IF fatal
       THEN /\ crashed' = TRUE
            /\ cw' = [cw EXCEPT ![g].pc = "panic"]
            /\ UNCHANGED <<cprev, clast, debounceVars, capNodes>>
            /\ UNCHANGED <<rebuildVars, throttleVars>>
       ELSE /\ CapStep(g, l, FALSE)
            /\ UNCHANGED crashed

\* lines 152, 200-202: cacheHit compares the length of the cache, as it is
\* now, with the number of records; with no record and an empty cache the
\* pass returns at line 153
PassCacheHit(g) ==
    LET l == cw[g] IN
    /\ ~crashed
    /\ l.pc = "hit"
    /\ CapStep(g, IF ~CacheHitLen(cacheConfigMap, l.nodeDevice)
                  THEN [l EXCEPT !.pc = "get"]
                  ELSE IF l.nodeDevice = <<>>
                       THEN Returned([l EXCEPT !.hit = TRUE], "nil")
                       ELSE [l EXCEPT !.pc = "has", !.hi = 1], FALSE)
    /\ UNCHANGED <<cacheConfigMap, configMap, cart, crashed>>

\* lines 203-206: the cache, as it is now, is looked up under the node name
\* of the next record
PassCacheHas(g, fatal) ==
    LET l == cw[g]  value == l.nodeDevice[l.hi] IN
    /\ ~crashed
    /\ l.pc = "has"
    /\ CacheRead(g, fatal, IF CacheHitHas(cacheConfigMap, value)
                           THEN [l EXCEPT !.pc = "equal"]
                           ELSE [l EXCEPT !.pc = "get"])
    /\ UNCHANGED <<cacheConfigMap, configMap, cart>>

\* lines 208-212, 153: the entry is read again from the cache, as it is
\* now, and compared with the record; after the last record the pass
\* returns
PassCacheEqual(g, fatal) ==
    LET l == cw[g]  value == l.nodeDevice[l.hi] IN
    /\ ~crashed
    /\ l.pc = "equal"
    /\ CacheRead(g, fatal, IF ~CacheHitEqual(cacheConfigMap, value)
                           THEN [l EXCEPT !.pc = "get"]
                           ELSE IF l.hi = Len(l.nodeDevice)
                                THEN Returned([l EXCEPT !.hit = TRUE], "nil")
                                ELSE [l EXCEPT !.pc = "has", !.hi = @ + 1])
    /\ UNCHANGED <<cacheConfigMap, configMap, cart>>

\* lines 162-185: the artifact is fetched; the object fetched is current
PassGet(g, fault) ==
    /\ ~crashed
    /\ cw[g].pc = "get"
    /\ IF fault = "get"
       THEN /\ CapStep(g, FailedPass(cw[g], "get"), FALSE)
            /\ cacheConfigMap' = CacheOnWriteFail(cacheConfigMap, cw[g].nodeDevice)
       ELSE /\ CapStep(g, [cw[g] EXCEPT !.pc = "write",
                                         !.found = configMap.exists,
                                         !.stale = FALSE], FALSE)
            /\ UNCHANGED cacheConfigMap
    /\ UNCHANGED <<configMap, cart, crashed>>

\* a successful write of the artifact
Written(nodeDevice) ==
    /\ configMap' = [exists |-> TRUE, data |-> MarshalJSON(nodeDevice)]
    /\ cart' = [cart EXCEPT
                  !.writes  = @ + 1,
                  !.written = {nodeDevice[i] : i \in DOMAIN nodeDevice}]

\* lines 165-182 and 187-193: Create when the fetch found nothing, which
\* fails when the artifact exists by now, and returns without refreshing
\* the cache; Update otherwise, which fails on a stale or deleted object
PassWrite(g, fault) ==
    LET l == cw[g]
        ok == /\ fault = "none"
              /\ IF l.found THEN configMap.exists /\ ~l.stale
                 ELSE ~configMap.exists
    IN  /\ ~crashed
        /\ l.pc = "write"
        /\ IF ~ok
           THEN /\ CapStep(g, FailedPass(l, IF l.found THEN "update"
                                             ELSE "create"), FALSE)
                /\ cacheConfigMap' = CacheOnWriteFail(cacheConfigMap, l.nodeDevice)
                /\ UNCHANGED <<configMap, cart>>
           ELSE /\ Written(l.nodeDevice)
                /\ CapStep(g, IF l.found
                               THEN [l EXCEPT !.pc = "refresh",
                                              !.write = "update"]
                               ELSE Returned([l EXCEPT !.write = "create"],
                                             "nil"), TRUE)
                /\ UNCHANGED cacheConfigMap
        /\ UNCHANGED crashed

\* line 216: r.cacheConfigMap is a new, empty map; with no record to write
\* the loop is left at once and the pass returns (line 195)
PassRefresh(g) ==
    /\ ~crashed
    /\ cw[g].pc = "refresh"
    /\ cacheConfigMap' = EmptyMap
    /\ CapStep(g, IF cw[g].nodeDevice = <<>>
                  THEN Returned(cw[g], "nil")
                  ELSE [cw[g] EXCEPT !.pc = "fill", !.fi = 0], FALSE)
    /\ UNCHANGED <<configMap, cart, crashed>>

\* lines 217-219 and 195: one iteration of the loop writes the next record
\* into the map the field holds at that moment, which the other goroutine
\* may have replaced (line 216) since the iteration before; after the last
\* record the pass returns. Two goroutines that write the map at the same
\* time race: the runtime may end the process (concurrent map writes)
PassFill(g, fatal) ==
    LET l     == cw[g]
        value == l.nodeDevice[l.fi + 1]
    IN  /\ ~crashed
        /\ l.pc = "fill"
        /\ fatal => cw[Other(g)].pc = "fill"
        /\ IF fatal
           THEN /\ crashed' = TRUE
                /\ cw' = [cw EXCEPT ![g].pc = "panic"]
                /\ UNCHANGED <<cprev, clast, debounceVars, capNodes>>
                /\ UNCHANGED <<rebuildVars, throttleVars>>
                /\ UNCHANGED cacheConfigMap
           ELSE /\ cacheConfigMap' =
                      MapSet(cacheConfigMap, value["nodeName"], value)
                /\ CapStep(g, IF l.fi + 1 = Len(l.nodeDevice)
                              THEN Returned(l, "nil")
                              ELSE [l EXCEPT !.fi = @ + 1], FALSE)
                /\ UNCHANGED crashed
        /\ UNCHANGED <<configMap, cart>>

\* the steps of a pass of goroutine g after the list of the nodes
UpdateNodeConfigMap(g) ==
    \/ PassCacheHit(g)
    \/ \E fatal \in BOOLEAN : PassCacheHas(g, fatal)
    \/ \E fatal \in BOOLEAN : PassCacheEqual(g, fatal)
    \/ \E fault \in {"none", "get"} : PassGet(g, fault)
    \/ \E fault \in {"none", "write"} : PassWrite(g, fault)
    \/ PassRefresh(g)
    \/ \E fatal \in BOOLEAN : PassFill(g, fatal)

\* line 87: the cache starts empty; the artifact is absent or left by an
\* earlier run of the process
InitCapacity ==
    /\ capNodes \in CapNodeInit
    /\ cacheConfigMap = EmptyMap
    /\ configMap \in {AbsentConfigMap, [exists |-> TRUE, data |-> "[]"]}
    /\ cprev = NoCapPass
    /\ clast = NoCapPass
    /\ DebounceIdle
    /\ ReentrantIdle
    /\ crashed = FALSE
    /\ RebuildIdle
    /\ ThrottleIdle

\* the passes of the two goroutines, whatever starts them, over a cluster
\* that changes
NextCapacity ==
    \/ \E g \in Goroutines : \E order \in NodeOrders :
       \E fault \in {"none", "list"} :
          PassList(g, order, fault) /\ UNCHANGED debounceVars
    \/ \E g \in Goroutines : UpdateNodeConfigMap(g)
    \/ \E c \in Quantities : NodeCapacityChanged("n1", Disk(c))
    \/ ConfigMapDeleted

SpecCapacity == InitCapacity /\ [][NextCapacity]_vars

\* the passes of the two goroutines over the same node records and an
\* artifact nobody else touches
NextReentrant ==
    \/ \E g \in Goroutines : \E order \in NodeOrders :
       \E fault \in {"none", "list"} :
          PassList(g, order, fault) /\ UNCHANGED debounceVars
    \/ \E g \in Goroutines : UpdateNodeConfigMap(g)

SpecReentrant == InitCapacity /\ [][NextReentrant]_vars

\* a second passes; a sleeping Reconcile wakes when its time has come
Tick ==
    /\ ~crashed
    /\ now < MaxTime
    /\ deb.pc = "sleeping" => now < deb.wake
    /\ now' = now + 1
    /\ UNCHANGED <<lastEventTime, lastRun, queue, deb, ticks>>
    /\ UNCHANGED <<capNodes, cacheConfigMap, configMap, cprev, clast, crashed,
                           reentrantVars>>
    /\ UNCHANGED <<rebuildVars, throttleVars>>

\* lines 111-123: every create, update and delete event of a PersistentVolume
\* puts its key in the work queue, which holds a key once
PvEvent(k) ==
    /\ ~crashed
    /\ queue' = queue \cup {k}
    /\ UNCHANGED <<now, lastEventTime, lastRun, deb, ticks>>
    /\ UNCHANGED <<capNodes, cacheConfigMap, configMap, cprev, clast, crashed,
                           reentrantVars>>
    /\ UNCHANGED <<rebuildVars, throttleVars>>

\* lines 53-58: the worker takes a request; it returns nil at once, or notes
\* the time and goes to sleep
ReconcileEnter(k, d) ==
    /\ ~crashed
    /\ deb.pc = "idle"
    /\ k \in queue
    /\ queue' = queue \ {k}
    /\ IF Suppressed(now - lastEventTime)
       THEN /\ deb' = [IdleDeb EXCEPT !.key = k, !.out = "suppressed"]
            /\ UNCHANGED lastEventTime
       ELSE /\ lastEventTime' = now
            /\ deb' = [IdleDeb EXCEPT !.pc = "sleeping", !.key = k,
                                      !.wake = now + d]
    /\ UNCHANGED <<now, lastRun, ticks>>
    /\ UNCHANGED <<capNodes, cacheConfigMap, configMap, cprev, clast, crashed,
                           reentrantVars>>
    /\ UNCHANGED <<rebuildVars, throttleVars>>

\* lines 59-76: after the sleep the triggering volume is fetched; a request
\* that returns an error goes back to the work queue; a volume that is
\* absent or of this driver leads to the pass
ReconcileWake(found) ==
    /\ ~crashed
    /\ deb.pc = "sleeping"
    /\ now = deb.wake
    /\ lastEventTime' = now
    /\ lastRun' = now
    /\ IF found = "error"
       THEN /\ deb' = [deb EXCEPT !.pc = "idle", !.pv = found, !.out = "err"]
            /\ queue' = queue \cup {deb.key}
       ELSE IF found \in {"other", "nocsi"}
       THEN /\ deb' = [deb EXCEPT !.pc = "idle", !.pv = found, !.out = "nil"]
            /\ UNCHANGED queue
       ELSE /\ deb' = [deb EXCEPT !.pc = "pass", !.pv = found]
            /\ UNCHANGED queue
    /\ UNCHANGED <<now, ticks>>
    /\ UNCHANGED <<capNodes, cacheConfigMap, configMap, cprev, clast, crashed,
                           reentrantVars>>
    /\ UNCHANGED <<rebuildVars, throttleVars>>

\* line 77: Reconcile calls updateNodeConfigMap
EventPass(order, fault) ==
    /\ deb.pc = "pass"
    /\ PassList("event", order, fault)
    /\ UNCHANGED <<now, lastEventTime, lastRun, ticks>>

\* lines 90-100: the ticker goroutine starts a pass for a tick of its ticker
TimerPass(order, fault) ==
    /\ ticks < now \div TickerPeriod
    /\ ticks' = now \div TickerPeriod
    /\ PassList("timer", order, fault)
    /\ UNCHANGED <<now, lastEventTime, lastRun>>

\* one node with a disk of this system, the artifact left by an earlier run
InitDebounce ==
    /\ capNodes = [n \in NodeNames |-> IF n = "n1" THEN Disk(10) ELSE NoDisk]
    /\ cacheConfigMap = EmptyMap
    /\ configMap = [exists |-> TRUE, data |-> "[]"]
    /\ cprev = NoCapPass
    /\ clast = NoCapPass
    /\ DebounceIdle
    /\ ReentrantIdle
    /\ crashed = FALSE
    /\ RebuildIdle
    /\ ThrottleIdle

NextDebounce ==
    \/ Tick
    \/ \E k \in PvKeys : PvEvent(k)
    \/ \E k \in PvKeys : \E d \in SleepChoices : ReconcileEnter(k, d)
    \/ \E found \in PvFound : ReconcileWake(found)
    \/ \E order \in NodeOrders : \E fault \in {"none", "list"} :
          EventPass(order, fault)
    \/ \E order \in NodeOrders : TimerPass(order, "none")
    \/ \E g \in Goroutines : UpdateNodeConfigMap(g)

SpecDebounce == InitDebounce /\ [][NextDebounce]_vars

\* the throttle controller from every combination of pods and host files
InitThrottle ==
    /\ pods \in [PodNames -> UNION {PodInit(p) : p \in PodNames}]
    /\ \A p \in PodNames : pods[p] \in PodInit(p)
    /\ hostFile \in HostInit
    /\ tpass = [g \in ThrottleRoutines |-> IdlePass]
    /\ zeroedBefore = {}
    /\ cleanBefore = FALSE
    /\ dirty = FALSE
    /\ ReconcileIdle
    /\ crashed = FALSE
    /\ RebuildIdle
    /\ CapacityIdle

\* the lookups that can fail: those of claim c2
PvFaults(l) ==
    IF l.pc = "resolve" /\ l.items[l.pi].volumes[l.vi] = "c2"
    THEN {"none", "pv"} ELSE {"none"}

\* the commands that can fail: the ticker's command on device 8:16 of the
\* read-bytes file
ExecFaults(g, cmd) ==
    IF g = "ticker" /\ cmd.kind = BlkIOThrottleReadBPS /\ cmd.dev = "8:16"
    THEN {"none", "exec"} ELSE {"none"}

\* the pods whose create, update and delete events occur
EventPods == {"a"}

\* the steps of a pass of goroutine g after its first call
ThrottlePassStep(g) ==
    \/ \E fault \in PvFaults(tpass[g]) : ListPv(g, fault)
    \/ \E cmd \in Runnable(tpass[g]) : \E fault \in ExecFaults(g, cmd) :
          WriteCgroupBlkioFile(g, cmd, fault)

\* the ticker's full passes and the worker's Reconcile run side by side
NextThrottle ==
    \/ \E order \in PodOrders : \E fault \in {"none", "pods"} :
          AllPodCGroupConfig(order, fault)
    \/ ReadCGroupBlkioFile
    \/ \E g \in ThrottleRoutines : ThrottlePassStep(g)
    \/ \E p \in EventPods : ReconcileGet(p, "none")
    \/ \E p \in EventPods : PodDeleted(p)

SpecThrottle == InitThrottle /\ [][NextThrottle]_vars

\* Reconcile for pod a, which is absent or present in any phase, with or
\* without deletion marker
InitReconcile ==
    /\ pods \in [PodNames -> PodInit("a")]
    /\ pods["b"] = AbsentPod
    /\ hostFile \in HostInit
    /\ tpass = [g \in ThrottleRoutines |-> IdlePass]
    /\ zeroedBefore = {}
    /\ cleanBefore = FALSE
    /\ dirty = FALSE
    /\ podStatus \in [PodNames -> [phase : {"Pending", "Running"},
                                   deleting : BOOLEAN]]
    /\ podStatus["b"] = [phase |-> "Running", deleting |-> FALSE]
    /\ rec = IdleRec
    /\ crashed = FALSE
    /\ RebuildIdle
    /\ CapacityIdle

NextReconcile ==
    \/ \E p \in PodNames : \E fault \in {"none", "get"} : ReconcileGet(p, fault)
    \/ \E fault \in {"none", "get"} : ReconcilePoll(fault)
    \/ ThrottlePassStep("worker")
    \/ \E p \in PodNames : PodRunning(p)

SpecReconcile == InitReconcile /\ [][NextReconcile]_vars

(***************************************************************************)
(* The specifications of NodeReconciler.                                   *)
(***************************************************************************)
\* line 61: the cache starts empty; no pass is running
RebuildStartsIdle ==
    /\ cacheNoDeleteLv = {}
    /\ wk = [w \in Workers |-> IdleWk("none")]
    /\ lastCall = NoCall
    /\ events = 0
    /\ exhaustedBefore = {}
    /\ stopChan = FALSE
    /\ ticker = "running"
    /\ crashed = FALSE
    /\ ThrottleIdle
    /\ CapacityIdle

\* lv1 is one of Lv1Cases on node n1, which is running, terminated or
\* marked for deletion, and its claim exists or not; lv2 is not yet
\* provisioned when lv1 is owned and owned when lv1 is not, on the running
\* node n2, with its claim and its PersistentVolume: a pass has no
\* candidate or one
OneCandidate ==
    /\ \E c \in Lv1Cases :
          /\ lvs = [n \in LVNames |->
                      IF n = "lv1" THEN c.lv
                      ELSE IF IsOwned(c.lv) THEN LVObj("lv2", {}, "", {})
                      ELSE OwnedLV("lv2")]
          /\ pvs = IF c.pv THEN LVNames ELSE {"lv2"}
    /\ \E n1 \in {RunningNode, TerminatedNode, DeletingNode} :
          nodes = [n \in NodeNames |-> IF n = "n1" THEN n1 ELSE RunningNode]
    /\ \E c1 \in {BoundClaim("sc"), AbsentClaim} :
          claims = [k \in ClaimKeys |->
                      IF k = "ns/pvc1" THEN c1 ELSE BoundClaim("sc")]

\* lv1 and lv2 are not yet provisioned and carry the rebuild finalizer, on
\* running nodes and with their PersistentVolumes: every pass has two
\* candidates. The claim of lv1 exists, the claim of lv2 is gone
TwoCandidates ==
    /\ lvs = [n \in LVNames |-> LVObj(n, {}, "", {LogicVolumeFinalizer})]
    /\ pvs = LVNames
    /\ nodes = [n \in NodeNames |-> RunningNode]
    /\ claims = [k \in ClaimKeys |->
                  IF k = "ns/pvc1" THEN BoundClaim("sc") ELSE AbsentClaim]

InitRebuild ==
    /\ OneCandidate \/ TwoCandidates
    /\ RebuildStartsIdle

\* whether a cluster call fails for reasons of the cluster's own
Faults == {"none", "fail"}

\* the steps of the pass that goroutine w is running, call by call
PassStep(w) ==
    \/ \E fault \in {"none", "nodes"} : ListNodes(w, fault)
    \/ \E fault \in {"none", "pvs"} : ListPvs(w, fault)
    \/ \E fault \in Faults : \E fatal \in BOOLEAN : ScanStep(w, fault, fatal)
    \/ \E fault \in Faults : SelectStep(w, fault)
    \/ \E fault \in Faults : OrphanPatch(w, fault)
    \/ \E fault \in Faults : \E key \in wk[w].pending : RebuildStart(w, key, fault)
    \/ \E fatal \in BOOLEAN : CacheWrite(w, fatal)
    \/ \E fault \in Faults : DeleteClaim(w, fault)
    \/ \E fault \in Faults : CreateClaim(w, fault)

\* a pass of goroutine w begins
PassBegin(w) ==
    \E fault \in {"none", "lvs"} :
        \E order \in LVOrders({n \in LVNames : lvs[n].exists}) :
            PassStart(w, fault, order)

\* the passes of the ticker goroutine (lines 63-76) and of the goroutine
\* that Reconcile starts when node n1 is deleted (line 54), step by step in
\* any interleaving
NextRebuild ==
    \/ \E w \in Workers : PassBegin(w)
    \/ \E w \in Workers : PassStep(w)
    \/ NodeDeleteEvent("n1")

SpecRebuild == InitRebuild /\ [][NextRebuild]_vars

\* every node is running and every claim exists. lv1 is provisioned, with
\* a PersistentVolume; lv2 has failed and has no PersistentVolume
InitOverlap ==
    /\ lvs = [n \in LVNames |->
                IF n = "lv1" THEN LVObj("lv1", {}, "Success", {LogicVolumeFinalizer})
                ELSE LVObj("lv2", {}, "Failed", {LogicVolumeFinalizer})]
    /\ nodes = [n \in NodeNames |-> RunningNode]
    /\ pvs = {"lv1"}
    /\ claims = [k \in ClaimKeys |-> BoundClaim("sc")]
    /\ RebuildStartsIdle

\* the passes of the ticker goroutine and of the goroutines of two delete
\* events, with no failure of the cluster's own
NextOverlap ==
    \/ \E w \in Workers :
         \E order \in LVOrders({n \in LVNames : lvs[n].exists}) :
            PassStart(w, "none", order)
    \/ \E w \in Workers : ListNodes(w, "none")
    \/ \E w \in Workers : ListPvs(w, "none")
    \/ \E w \in Workers : \E fatal \in BOOLEAN : ScanStep(w, "none", fatal)
    \/ \E w \in Workers : SelectStep(w, "none")
    \/ \E w \in Workers : OrphanPatch(w, "none")
    \/ \E w \in Workers : \E key \in wk[w].pending : RebuildStart(w, key, "none")
    \/ \E w \in Workers : \E fatal \in BOOLEAN : CacheWrite(w, fatal)
    \/ \E w \in Workers : DeleteClaim(w, "none")
    \/ \E w \in Workers : CreateClaim(w, "none")
    \/ \E n \in NodeNames : NodeDeleteEvent(n)

SpecOverlap == InitOverlap /\ [][NextOverlap]_vars

\* no node is deleted: lv1 is provisioned or not yet, with a
\* PersistentVolume, on node n1, which is running, terminated or marked for
\* deletion; lv2 is not yet provisioned or owned, with a PersistentVolume,
\* or has failed and has none; each claim exists, with one of `specs`, or
\* not
InitTicker(specs) ==
    /\ \E l1 \in {LVObj("lv1", {}, "Success", {LogicVolumeFinalizer}),
                  LVObj("lv1", {}, "", {LogicVolumeFinalizer})} :
       \E l2 \in {LVObj("lv2", {}, "", {}), OwnedLV("lv2"),
                  LVObj("lv2", {}, "Failed", {LogicVolumeFinalizer})} :
          /\ lvs = [n \in LVNames |-> IF n = "lv1" THEN l1 ELSE l2]
          /\ pvs = IF l2.status = "Failed" THEN {"lv1"} ELSE LVNames
    /\ \E n1 \in {RunningNode, TerminatedNode, DeletingNode} :
          nodes = [n \in NodeNames |-> IF n = "n1" THEN n1 ELSE RunningNode]
    /\ claims \in [ClaimKeys -> {AbsentClaim} \cup {BoundClaim(s) : s \in specs}]
    /\ RebuildStartsIdle

\* the passes of the ticker goroutine alone (lines 63-76), one after the
\* other
NextTicker ==
    \/ PassBegin("timer")
    \/ PassStep("timer")

SpecTicker == InitTicker(ClaimSpecs) /\ [][NextTicker]_vars

\* the manager closes the stop channel
Shutdown ==
    /\ ~stopChan
    /\ stopChan' = TRUE
    /\ UNCHANGED <<lvs, nodes, pvs, claims, cacheNoDeleteLv, wk, lastCall, events,
                   exhaustedBefore, ticker, crashed>>
    /\ UNCHANGED <<throttleVars, capVars>>

\* lines 66-73: the goroutine, waiting in the select, takes the stop case:
\* it returns and the deferred call stops the ticker
TickerReturn ==
    /\ ~crashed
    /\ stopChan
    /\ ticker = "running"
    /\ wk["timer"].pc = "idle"
    /\ ticker' = "stopped"
    /\ UNCHANGED <<lvs, nodes, pvs, claims, cacheNoDeleteLv, wk, lastCall, events,
                   exhaustedBefore, stopChan, crashed>>
    /\ UNCHANGED <<throttleVars, capVars>>

\* a step of the pass the ticker goroutine is running
TickerPassStep == PassStep("timer")

\* lines 65-76: the ticker goroutine runs a pass on every tick until it
\* takes the stop case
NextShutdown ==
    \/ PassBegin("timer")
    \/ TickerPassStep
    \/ Shutdown
    \/ TickerReturn

\* claims whose spec fields are all set; a pass that has begun goes on, and
\* the select takes the stop case in the end when it is ready again and
\* again
SpecShutdown ==
    /\ InitTicker({"sc"})
    /\ [][NextShutdown]_vars
    /\ WF_vars(TickerPassStep)
    /\ SF_vars(TickerReturn)

(***************************************************************************)
(* Properties of NodeReconciler.                                           *)
(***************************************************************************)
PassDone(w) == wk[w].pc = "idle" /\ wk[w].ret = "nil"

\* the step is one of goroutine w
Steps(w) == wk'[w] # wk[w] /\ wk[w].pc # "idle"

\* goroutine w examines the listed LogicVolume at the head of its list
Scanning(w) == wk[w].pc \in {"scan", "select"} /\ wk'[w] # wk[w]

\* the step is the call c of goroutine w
Calls(w, c) == lastCall' = c /\ (wk'[w] # wk[w] \/ wk[w].pc = "create")

\* the node of lv as the pass of w listed it: "normal", "abnormal", or
\* "gone" when the list did not hold it
ListedNode(w, lv) ==
    IF LVNode(lv) \in DOMAIN wk[w].nodeStatus
    THEN wk[w].nodeStatus[LVNode(lv)] ELSE "gone"

\* the pass of w has examined every LogicVolume it listed, and gone on
\* to rebuildVolume or returned nil
Examined(w) ==
    /\ wk[w].pvMap # {}
    /\ wk[w].lvList = <<>>
    /\ wk[w].pc = "rebuild" \/ PassDone(w)

\* C1: no step of a rebuild pass deletes or patches a LogicVolume that has
\* owner references, records it as a rebuild candidate, or issues any call on
\* the claim it names
C1_OwnedNeverTouched ==
    [][\A lv \in LVNames :
          (lvs[lv].exists /\ lvs[lv].owners # {}) =>
             /\ lvs'[lv] = lvs[lv]
             /\ claims'[lvs[lv].pvc] = claims[lvs[lv].pvc]
             /\ ~(lastCall'.kind = "lv" /\ lastCall'.name = lv)
             /\ ~(lastCall'.kind = "pvc" /\ lastCall'.name = lvs[lv].pvc)
             /\ \A w \in Workers :
                   \A c \in ClaimKeys : <<lv, c>> \notin wk'[w].volumeObjectMap
      ]_vars

\* an owned LogicVolume with a status, the finalizer and no PersistentVolume
\* has been through a whole pass that rebuilt the claim of the other volume
C1_Witness ==
    \E lv \in LVNames : \E w \in Workers :
        /\ lvs[lv].exists /\ lvs[lv].owners # {}
        /\ lvs[lv].status # ""
        /\ LogicVolumeFinalizer \in lvs[lv].finalizers
        /\ PassDone(w)
        /\ lv \notin wk[w].pvMap
        /\ wk[w].created # {}

\* C2: a step that examines a LogicVolume with status Success whose node
\* is in the node list of the pass and classified normal does not put it in
\* the candidate map, whatever the negative cache and the PersistentVolumes
\* are
C2_SuccessOnNormalNodeNeverCandidate ==
    [][\A w \in Workers :
          Scanning(w) =>
             LET item == Head(wk[w].lvList) IN
             (/\ item.obj.status = "Success"
              /\ ListedNode(w, item.name) = "normal")
             => \A c \in ClaimKeys : <<item.name, c>> \notin wk'[w].volumeObjectMap
      ]_vars

\* such a volume, with a PersistentVolume, has been examined by a pass
C2_Witness ==
    \E lv \in LVNames : \E w \in Workers :
        /\ lvs[lv].exists /\ lvs[lv].status = "Success" /\ lvs[lv].owners = {}
        /\ ListedNode(w, lv) = "normal"
        /\ lv \in wk[w].pvMap
        /\ Examined(w)
        /\ \A c \in ClaimKeys : <<lv, c>> \notin wk[w].volumeObjectMap

\* a claim that exists with the spec fields `spec`, no volume name and an
\* empty status
FreshClaim(spec) ==
    [exists |-> TRUE, spec |-> spec, volumeName |-> "", status |-> ""]

\* the claim a pass creates is the new claim made of the one it fetched:
\* same name and spec fields, no volume name, empty status
CreatesFetched ==
    \A w \in Workers : \A ck \in ClaimKeys :
        /\ Calls(w, PvcOp(w, "get", ck, TRUE, claims[ck].spec))
              => wk'[w].newPvc.spec = claims[ck].spec
        /\ Calls(w, PvcOp(w, "create", ck, TRUE, wk[w].newPvc.spec))
              => claims'[ck] = FreshClaim(wk[w].newPvc.spec)
        /\ (Steps(w) /\ wk'[w].created # wk[w].created /\ wk'[w].pc # "idle")
              => /\ wk'[w].created = wk[w].created \cup {wk[w].key[2]}
                 /\ lastCall' = PvcOp(w, "create", wk[w].key[2], TRUE,
                                  wk[w].newPvc.spec)

\* lv is without owner references, has status Success, and its node was
\* gone from the cluster when the pass of w, which returned nil, listed the
\* nodes
OnDeletedNode(w, lv) ==
    /\ PassDone(w)
    /\ lvs[lv].exists /\ lvs[lv].owners = {}
    /\ lvs[lv].status = "Success"
    /\ wk[w].volumeObjectMap # {} \/ wk[w].pvMap # {}
    /\ ListedNode(w, lv) = "gone"

\* C3: after a pass that returned nil, every LogicVolume without owner
\* references, with status Success and no PersistentVolume, pinned to a
\* deleted node, whose claim exists, has had its claim created anew by the
\* pass; and the claim a pass creates has the spec fields of the claim it
\* fetched, no volume name and an empty status
C3_DeletedNodeRebuilt ==
    /\ [](\A w \in Workers : \A lv \in LVNames :
            (/\ OnDeletedNode(w, lv)
             /\ lv \notin wk[w].pvMap
             /\ claims[LVClaim(lv)].exists)
            => LVClaim(lv) \in wk[w].created)
    /\ [][CreatesFetched]_vars

\* C4 as stated: a LogicVolume whose claim creation ran out of its 12
\* attempts in an earlier pass does not have its claim deleted or created
\* again by a later pass over the unchanged cluster
C4_NoRetryAfterExhaustion ==
    \A w \in Workers : \A lv \in wk[w].known \cap exhaustedBefore :
        ~(/\ lastCall.by = w
          /\ lastCall.kind = "pvc"
          /\ lastCall.op \in {"delete", "create"}
          /\ lastCall.name = LVClaim(lv))

\* C10: the step in which a list call of a pass fails ends the pass with the
\* error: no LogicVolume was patched, no candidate selected, no claim
\* created, and LogicVolumes, claims and negative cache are as they were
C10_ListFailureNoMutation ==
    [][\A w \in Workers :
          (wk'[w] # wk[w] /\ wk'[w].listErr # "none") =>
             /\ wk'[w].pc = "idle"
             /\ wk'[w].ret = "err"
             /\ lastCall' = Op(w, "list", wk'[w].listErr, "", FALSE)
             /\ wk'[w].patched = {}
             /\ wk'[w].volumeObjectMap = {}
             /\ wk'[w].created = {}
             /\ lvs' = lvs
             /\ claims' = claims
             /\ cacheNoDeleteLv' = cacheNoDeleteLv
      ]_vars

\* the PersistentVolume list of a pass failed, with a volume to patch
C10_Witness ==
    \E w \in Workers :
        /\ wk[w].listErr = "pvs"
        /\ wk[w].ret = "err"
        /\ lastCall = Op(w, "list", "pvs", "", FALSE)
        /\ \E lv \in LVNames :
              /\ lvs[lv].exists /\ lvs[lv].owners = {} /\ lvs[lv].status = ""
              /\ LogicVolumeFinalizer \in lvs[lv].finalizers

\* C11: the first call of a pass on a LogicVolume without owner references,
\* with a status and without PersistentVolume is the finalizer patch when
\* the volume carries the rebuild finalizer, and the delete of the
\* LogicVolume when it does not.
C11_OrphanPatchedThenDeleted ==
    [][\A w \in Workers :
          (/\ Scanning(w)
           /\ Head(wk[w].lvList).obj.owners = {}
           /\ Head(wk[w].lvList).obj.status # ""
           /\ Head(wk[w].lvList).name \notin wk[w].pvMap)
          => LET item == Head(wk[w].lvList) IN
             /\ lastCall'.by = w /\ lastCall'.kind = "lv" /\ lastCall'.name = item.name
             /\ lastCall'.op = IF LogicVolumeFinalizer \in item.obj.finalizers
                           THEN "patch" ELSE "delete"
      ]_vars

\* the step in which the claim creation of goroutine w runs out of attempts
ExhaustingStep(w) ==
    /\ wk[w].pc = "create"
    /\ wk[w].attempts = CreateRetries - 1
    /\ wk'[w] # wk[w]
    /\ lastCall' = PvcOp(w, "create", wk[w].key[2], FALSE, wk[w].newPvc.spec)

\* C12: when the claim creation of one candidate runs out of its 12
\* attempts, the pass goes on with the candidates that are left: it does not
\* return, and every remaining candidate is still to be fetched.
C12_ExhaustionDoesNotAbort ==
    [][\A w \in Workers :
          (ExhaustingStep(w) /\ wk[w].pending \ {wk[w].key} # {})
          => /\ wk'[w].pc = "rebuild"
             /\ wk'[w].pending = wk[w].pending \ {wk[w].key}
      ]_vars

\* the step in which the fetch of the claim of candidate key fails
FetchFailStep(w, key) ==
    /\ wk[w].pc = "rebuild"
    /\ key \in wk[w].pending
    /\ wk'[w] # wk[w]
    /\ lastCall' = PvcOp(w, "get", key[2], FALSE, "")

\* a step must not make lv a candidate when lv is in the negative cache and
\* its listed status is one of `statuses`; and no step makes a call on the
\* claim of a LogicVolume that is not a candidate of the pass
SkipsCached(statuses) ==
    \A w \in Workers :
        /\ Scanning(w) =>
              LET item == Head(wk[w].lvList) IN
              (item.name \in cacheNoDeleteLv /\ item.obj.status \in statuses)
              => \A c \in ClaimKeys : <<item.name, c>> \notin wk'[w].volumeObjectMap
        /\ \A lv \in LVNames :
              (\A c \in ClaimKeys : <<lv, c>> \notin wk[w].volumeObjectMap)
              => ~(/\ Steps(w) /\ lastCall'.by = w
                   /\ lastCall'.kind = "pvc" /\ lastCall'.name = LVClaim(lv))

\* after a failed fetch the next step of the pass puts the name in the
\* negative cache and the pass goes on with the next candidate; the cache
\* never loses an entry
FetchFailCached ==
    /\ \A w \in Workers :
          /\ \A key \in wk[w].pending :
                FetchFailStep(w, key) =>
                    wk'[w].pc = "cache" /\ wk'[w].key = key
          /\ (wk[w].pc = "cache" /\ wk'[w] # wk[w]) =>
                /\ wk[w].key[1] \in cacheNoDeleteLv'
                /\ IF wk[w].pending = {wk[w].key}
                   THEN wk'[w].pc = "idle" /\ wk'[w].ret = "nil"
                   ELSE /\ wk'[w].pc = "rebuild"
                        /\ wk'[w].pending = wk[w].pending \ {wk[w].key}
    /\ cacheNoDeleteLv \subseteq cacheNoDeleteLv'

\* C13: after a failed fetch the name is in the negative cache, the pass
\* goes on with the next candidate, the cache never loses an entry, and no
\* later pass makes the LogicVolume a candidate again or touches its claim,
\* whatever its status.
C13_CachedNeverRetried ==
    [][FetchFailCached /\ SkipsCached({"", "Success", "Failed"})]_vars

\* C16: no invocation ends in a crash: the process is alive and no
\* goroutine of the rebuild controller has stopped in a panic.
C16_NeverCrashes ==
    /\ ~crashed
    /\ \A w \in Workers : wk[w].pc # "panic"

\* C17: no pass deletes a claim that another pass, in flight at the same
\* time, has created anew.
C17_NoDoubleRecreate ==
    [][\A w, v \in Workers : \A ck \in ClaimKeys :
          (/\ w # v
           /\ ck \in wk[v].created
           /\ claims[ck] = FreshClaim(claims[ck].spec))
          => ~(wk[w].pc = "delete" /\ Calls(w, PvcOp(w, "delete", ck, TRUE, "")))
      ]_vars

\* C18: once the stop channel is closed the ticker goroutine of the
\* rebuild controller returns in the end; once it has returned no pass
\* begins; and a pass in flight when the channel is closed makes no create
\* attempt after the one that is under way.
C18_ShutdownPrompt ==
    /\ stopChan ~> (ticker = "stopped")
    /\ [][/\ ticker = "stopped" =>
                (ticker' = "stopped" /\ wk'["timer"].pc = "idle")
          /\ (stopChan /\ wk["timer"].pc = "create" /\ wk["timer"].attempts >= 1)
                => wk'["timer"] = wk["timer"]
         ]_vars

\* a call that deletes or creates a claim
ClaimWrite(o) == o.kind = "pvc" /\ o.op \in {"delete", "create"}

\* a finalizer patch of a LogicVolume
FinalizerPatch(o) == o.kind = "lv" /\ o.op = "patch"

\* C21: in every pass the finalizer patches come before the claim is
\* touched: a step that deletes or creates a claim finds every candidate of
\* the pass without the rebuild finalizer, and the list of the pass
\* examined to its end; a step that patches a finalizer is one of a pass
\* that has fetched and created no claim; the step in which a finalizer
\* patch of a candidate fails ends the pass with the error and the claims
\* as they were; and in the step in which the recreation of a candidate's
\* claim fails (the fetch fails or the create attempts run out) the
\* LogicVolume of the candidate does not carry the rebuild finalizer.
C21_FinalizerBeforeClaim ==
    [][\A w \in Workers :
          /\ (Steps(w) /\ lastCall'.by = w /\ ClaimWrite(lastCall'))
                => /\ \A c \in wk[w].volumeObjectMap :
                         LogicVolumeFinalizer \notin lvs[c[1]].finalizers
                   /\ wk[w].lvList = <<>>
          /\ (Steps(w) /\ lastCall'.by = w /\ FinalizerPatch(lastCall'))
                => /\ wk[w].pc \in {"scan", "select", "patch"}
                   /\ wk[w].key = <<>>
                   /\ wk[w].created = {}
          /\ (Steps(w) /\ lastCall'.by = w /\ FinalizerPatch(lastCall') /\ ~lastCall'.ok)
                => /\ wk'[w].pc = "idle" /\ wk'[w].ret = "err"
                   /\ claims' = claims
          /\ \A key \in wk[w].pending :
                (FetchFailStep(w, key) \/ (ExhaustingStep(w) /\ key = wk[w].key))
                => LogicVolumeFinalizer \notin lvs'[key[1]].finalizers
      ]_vars

\* the create attempts of a candidate ran out in a pass that had two
\* candidates and had stripped the finalizer of both
C21_Witness ==
    \E w \in Workers :
        /\ wk[w].pc = "idle" /\ wk[w].ret = "err"
        /\ wk[w].attempts = CreateRetries
        /\ wk[w].patched = LVNames
        /\ lvs[wk[w].key[1]].exists

\* C22: no pass deletes the claim of a LogicVolume without owner references
\* that the pass found with a PersistentVolume and on a node that is listed
\* and normal, whatever the status of the LogicVolume.
C22_HealthyClaimNeverDeleted ==
    \A w \in Workers : \A lv \in LVNames :
        (/\ wk[w].pc = "create"
         /\ lastCall = PvcOp(w, "delete", LVClaim(lv), TRUE, ""))
        => ~(/\ lvs[lv].owners = {}
             /\ lv \in wk[w].pvMap
             /\ ListedNode(w, lv) = "normal")

\* Properties of the throttle controller

\* the pass of the record ran its write step to the end
ThrottleDone(l) == l.pc = "done" /\ l.ret = "nil"

\* the number of commands of a pass for a kind and a device
WriteCount(l, kind, dev) ==
    Cardinality({w \in l.writes : w.kind = kind /\ w.dev = dev})

\* the values the commands of a pass carry for a kind and a device
WrittenValues(l, kind, dev) ==
    {w.val : w \in {x \in l.writes : x.kind = kind /\ x.dev = dev}}

\* C5: in every pass of the write step, for every limit kind and device
\* key, a desired value equal to the previous value gives no command, and a
\* desired value that differs from the previous value, or has no previous
\* value, gives exactly one command, which carries the desired value.
C5_WriteSuppression ==
    \A g \in ThrottleRoutines :
        ThrottleDone(tpass[g]) =>
            \A i \in DOMAIN tpass[g].cb : \A d \in DevKeys :
                LET c == tpass[g].cb[i] IN
                d \in DOMAIN c.newBlkio =>
                    IF d \in DOMAIN c.oldBlkio /\ c.oldBlkio[d] = c.newBlkio[d]
                    THEN WriteCount(tpass[g], c.name, d) = 0
                    ELSE /\ WriteCount(tpass[g], c.name, d) = 1
                         /\ WrittenValues(tpass[g], c.name, d) = {c.newBlkio[d]}

\* a full pass in which one desired value equals the host's and is not
\* written while another differs from the host's and is written
C5_Witness ==
    LET l == tpass["ticker"] IN
    /\ ThrottleDone(l)
    /\ l.path = "full"
    /\ \E i \in DOMAIN l.cb : \E d, e \in DevKeys :
          LET c == l.cb[i] IN
          /\ d \in DOMAIN c.newBlkio /\ d \in DOMAIN c.oldBlkio
          /\ c.oldBlkio[d] = c.newBlkio[d]
          /\ WriteCount(l, c.name, d) = 0
          /\ e \in DOMAIN c.newBlkio /\ e \in DOMAIN c.oldBlkio
          /\ c.oldBlkio[e] # c.newBlkio[e]
          /\ WriteCount(l, c.name, e) = 1

\* a pod of the pass references the device and carries no annotation of
\* the kind
UnannotatedReference(l, kind, dev) ==
    \E j \in DOMAIN l.items :
        /\ References(l.items[j], dev)
        /\ AnnotationKey(kind) \notin DOMAIN l.items[j].annotations

\* the step with which the ticker's full pass returns
TickerReturns ==
    tpass["ticker"].pc # "done" /\ tpass'["ticker"].pc = "done"

\* C6 (a), (c): what a full pass without failure writes
ZeroedInPass ==
    LET l == tpass["ticker"] IN
    CleanFull(l) =>
        /\ \A i \in DOMAIN l.cb : \A d \in DOMAIN l.cb[i].oldBlkio :
              UnannotatedReference(l, l.cb[i].name, d) =>
                  /\ WriteCount(l, l.cb[i].name, d) = 1
                  /\ WrittenValues(l, l.cb[i].name, d) = {"0"}
        /\ \A i \in DOMAIN l.cb : \A d \in DevKeys :
              (/\ d \notin DOMAIN l.cb[i].oldBlkio
               /\ \A j \in DOMAIN l.items : ~References(l.items[j], d))
              => WriteCount(l, l.cb[i].name, d) = 0

\* C6 (b): the full pass after one that cleared a device does not write it
NotZeroedAgain ==
    (TickerReturns /\ CleanFull(tpass'["ticker"]))
    => \A kd \in zeroedBefore : WriteCount(tpass'["ticker"], kd[1], kd[2]) = 0

\* C6: in full passes without a failure, (a) a device the host file holds
\* for a kind and that a matching pod without the annotation of the kind
\* references is written as "0" exactly once in the pass; (b) it is not
\* written again by the next full pass while nothing changes; (c) a device
\* the host file does not hold and no matching pod references is not written.
C6_ZeroedExactlyOnce == []ZeroedInPass /\ [][NotZeroedAgain]_vars

\* C7: a device key the host file holds for a kind and that is absent from
\* the desired values at the end of a full pass is written as "0" in that
\* pass.
C7_AbsentFromDesiredCleared ==
    LET l == tpass["ticker"] IN
    (ThrottleDone(l) /\ l.path = "full" /\ l.failed = {}) =>
        \A i \in DOMAIN l.cb :
            \A d \in DOMAIN l.cb[i].oldBlkio \ DOMAIN l.cb[i].newBlkio :
                /\ WriteCount(l, l.cb[i].name, d) = 1
                /\ WrittenValues(l, l.cb[i].name, d) = {"0"}

\* C23: of two consecutive full passes without failure over unchanged pods
\* and a host nothing else writes, the second issues no command at all,
\* whatever the annotation values are.
C23_SecondPassWritesNothing ==
    [][(TickerReturns /\ cleanBefore /\ CleanFull(tpass'["ticker"]))
          => tpass'["ticker"].writes = {}
      ]_vars

\* the orders of the pods of a list
ItemOrders(items) ==
    {[i \in DOMAIN items |-> items[f[i]]] :
        f \in {h \in [DOMAIN items -> DOMAIN items] :
                  \A i, j \in DOMAIN items : i # j => h[i] # h[j]}}

\* lines 215-254: the commands of a full pass without failure that lists
\* the pods in the given order, from the host files as cb holds them
FullPassCommands(podItems, cb) ==
    LET read    == [i \in DOMAIN cb |->
                       NewCgroupblkio(cb[i].name, cb[i].oldBlkio)]
        desired == LayerPods(read, podItems)
    IN UNION {MapCommands(desired[i]) : i \in DOMAIN desired}

\* C24: the commands of a full pass without failure do not depend on the
\* order of the pod list: the pass issues, for every kind and device, the
\* values that the pass over any other order of the same pods and the same
\* host files would issue.
C24_OrderIndependent ==
    LET l == tpass["ticker"] IN
    CleanFull(l) =>
        \A podItems \in ItemOrders(l.items) :
            FullPassCommands(podItems, l.cb) = l.writes

\* the devices of the claim-backed volumes of a pod for which the lookup
\* of the pass found exactly one volume of this driver
ResolvedDevices(pod, pvErr) ==
    {d \in DevKeys :
        \E i \in DOMAIN pod.volumes :
            /\ pod.volumes[i] # ""
            /\ pod.volumes[i] \notin pvErr
            /\ \E pv \in PersistentVolumes :
                  /\ pv.driver = CSIPluginName
                  /\ pv.claimRef = "ns-" \o pod.volumes[i]
                  /\ pv.major \o ":" \o pv.minor = d
                  /\ \A other \in PersistentVolumes :
                        (other.driver = CSIPluginName
                         /\ other.claimRef = pv.claimRef) => other = pv}

\* C8: a single-pod pass issues, for every device resolved from the pod's
\* claim-backed volumes and every one of the four limit kinds, exactly one
\* command, whose value is the pod's annotation of the kind when the pod
\* has it and "0" otherwise; it issues no command for another device.
C8_SinglePodWrites ==
    LET l == tpass["worker"] IN
    (ThrottleDone(l) /\ l.path = "single") =>
        LET pod == l.items[1] IN
        \A k \in KindSet : \A d \in DevKeys :
            IF d \in ResolvedDevices(pod, l.pvErr)
            THEN /\ WriteCount(l, k, d) = 1
                 /\ WrittenValues(l, k, d) =
                       {IF AnnotationKey(k) \in DOMAIN pod.annotations
                        THEN pod.annotations[AnnotationKey(k)] ELSE "0"}
            ELSE WriteCount(l, k, d) = 0

\* the single-pod pass of a pod annotated with read_bps_device = 104857600
\* on device 8:16 wrote that value to the read-bytes file once and "0" to
\* the read-iops file once
C8_Witness ==
    LET l == tpass["worker"] IN
    /\ ThrottleDone(l)
    /\ l.path = "single"
    /\ l.items[1].annotations =
          [k \in {AnnotationKey(BlkIOThrottleReadBPS)} |-> "104857600"]
    /\ WriteCount(l, BlkIOThrottleReadBPS, "8:16") = 1
    /\ WrittenValues(l, BlkIOThrottleReadBPS, "8:16") = {"104857600"}
    /\ WriteCount(l, BlkIOThrottleReadIOPS, "8:16") = 1
    /\ WrittenValues(l, BlkIOThrottleReadIOPS, "8:16") = {"0"}
    /\ l.failed = {}
    /\ "8:16" \in DOMAIN hostFile[BlkIOThrottleReadBPS].limits
    /\ hostFile[BlkIOThrottleReadBPS].limits["8:16"] = "104857600"

\* C14: an invocation of Reconcile that found its pod without deletion
\* marker has, when it returns, polled at most 5 times and performed the
\* single-pod configuration.
C14_AlwaysConfigures ==
    (rec.pc = "done" /\ rec.found /\ ~rec.deleting)
    => (rec.polls <= MaxPolls /\ rec.configured)

\* C15: a full pass whose pod list succeeded returns normally whatever the
\* host files are, and for a limit kind whose file is missing or malformed
\* it writes the annotation of every matching pod for every device the pod
\* references, as it would with an empty file.
C15_BadFileTreatedAsEmpty ==
    LET l == tpass["ticker"] IN
    (l.pc = "done" /\ l.path = "full" /\ l.ret # "err" /\ l.pvErr = {}) =>
        /\ l.ret = "nil"
        /\ \A k \in KindSet : \A j \in DOMAIN l.items : \A d \in DevKeys :
              (/\ hostFile[k].state # "ok"
               /\ References(l.items[j], d)
               /\ AnnotationKey(k) \in DOMAIN l.items[j].annotations)
              => WriteCount(l, k, d) = 1
\* ---------------------------------------------------------------------
\* Properties of the capacity aggregator

\* the artifact writes of a pass
ArtifactWrites(pass) == IF pass.write = "none" THEN 0 ELSE 1

\* C9: two consecutive passes that return without error and compute the
\* same record set, with no other pass and no change of the cluster under
\* them, the first of which did not find the record set in the cache, write
\* the artifact exactly once in total.
C9_OneWriteForTwoPasses ==
    (/\ cprev.ret = "nil" /\ clast.ret = "nil"
     /\ cprev.quiet /\ clast.quiet
     /\ cprev.records = clast.records
     /\ ~cprev.hit)
    => ArtifactWrites(cprev) + ArtifactWrites(clast) = 1

\* the API calls of the write path (lines 163, 177, 189)
WriteCalls == {"get", "create", "update"}

\* a pass that reached the write path: it wrote, or one of its calls failed
ReachedWrite(pass) == pass.write # "none" \/ pass.failed \in WriteCalls

\* the step with which a pass returns
PassReturns == clast' # clast /\ clast'.ret # "none"

\* C20: a pass whose Get, Create or Update of the artifact fails returns the
\* error with that call, has written nothing (one failed call, no retry
\* inside the pass) and leaves cache and artifact as they were; the pass
\* that follows it and computes the same records, no other pass and no
\* change of the cluster under either, does not find them in the cache and
\* goes to the write path again.
C20_WriteFailureSurfaced ==
    [][/\ (PassReturns /\ clast'.failed \in WriteCalls)
          => /\ clast'.ret = "err"
             /\ clast'.write = "none"
             /\ cacheConfigMap' = cacheConfigMap
             /\ configMap' = configMap
       /\ (/\ clast.failed \in WriteCalls /\ clast.quiet
           /\ PassReturns /\ clast'.quiet /\ clast'.failed # "list"
           /\ clast'.records = clast.records)
          => (~clast'.hit /\ ReachedWrite(clast'))
      ]_vars

\* a failed write followed by a pass over the same records that writes
C20_Witness ==
    /\ cprev.failed \in WriteCalls /\ cprev.quiet
    /\ clast.ret = "nil" /\ clast.quiet
    /\ clast.records = cprev.records
    /\ clast.write # "none"

(***************************************************************************)
(* Properties of PersistentVolumeReconciler.Reconcile.                     *)
(***************************************************************************)
\* the step in which the worker takes a request from the work queue
EnterStep == deb.pc = "idle" /\ queue' # queue /\ queue' \subseteq queue

\* the step in which a sleeping Reconcile wakes
WakeStep == deb.pc = "sleeping" /\ deb'.pc # "sleeping"

\* the step in which Reconcile returns from its pass
PassReturnStep == deb.pc = "pass" /\ deb'.pc = "idle"

\* nothing of the aggregation happened in the step: no node list, no write
NoAggregation ==
    /\ cprev' = cprev /\ clast' = clast /\ cw' = cw /\ cart' = cart
    /\ configMap' = configMap /\ cacheConfigMap' = cacheConfigMap

\* C19: a reconciliation that an event triggers less than 15 seconds after
\* the last run (the last event reconciliation that was not suppressed, or
\* the start of the controller) returns at once without listing nodes or
\* writing the artifact, and its request is dropped: it is not in the queue
\* again and the worker is idle. Otherwise it sleeps between 30 and 60
\* seconds, and when the sleep is over it goes to the aggregation pass if
\* the triggering volume is absent or belongs to this driver, and returns
\* only when that pass has returned.
C19_Debounce ==
    [][/\ EnterStep =>
            IF now - lastRun < 15
            THEN /\ deb'.pc = "idle" /\ deb'.out = "suppressed"
                 /\ NoAggregation
                 /\ deb'.key \notin queue'
            ELSE /\ deb'.pc = "sleeping"
                 /\ deb'.wake - now \in 30 .. 60
                 /\ NoAggregation
       /\ WakeStep =>
            /\ now = deb.wake
            /\ (deb'.pv \in {"absent", "ours"}) <=> (deb'.pc = "pass")
       /\ PassReturnStep =>
            /\ cart'.started["event"] > 0
            /\ cw'["event"].pc = "idle" /\ cw'["event"].ret # "none"
            /\ deb'.out = IF cw'["event"].ret = "err" THEN "err" ELSE "nil"
      ]_vars

\* an event suppressed after a reconciliation that slept and ran the pass
C19_Witness ==
    /\ deb.pc = "idle" /\ deb.out = "suppressed"
    /\ lastRun > 0 /\ now - lastRun < 15
    /\ cart.started["event"] > 0 /\ cw["event"].ret # "none"

\* the records the cache holds
CacheRecords == {cacheConfigMap[n] : n \in DOMAIN cacheConfigMap}

\* both goroutines have been through a pass and are out of it
BothFinished ==
    \A g \in Goroutines : cw[g].pc = "idle" /\ cw[g].ret # "none"

\* C25: however the passes of the two goroutines interleave over the same
\* node records, the artifact is written at most once, and when both have
\* finished and the artifact has been written the cache holds the records
\* written last.
C25_ReentrantSafe ==
    /\ cart.writes <= 1
    /\ (BothFinished /\ cart.writes > 0) => CacheRecords = cart.written
====
